---- MODULE Spec2Model ----
(***************************************************************************)
(* A model of the AtomGL SDL display port (src/sdl_display/display.c and   *)
(* src/display_items.h): the list diff that computes the damaged           *)
(* rectangle, the span-batched compositor with its four row renderers, and *)
(* the port's message handler with the retained scene list.                *)
(*                                                                         *)
(* C indices are kept 0-based; a C array a[i] is the TLA+ sequence         *)
(* element a[i + 1].  A 32-bit colour or pixel is the tuple of its four    *)
(* bytes, most significant first, so that shifts and masks are byte        *)
(* selections.                                                             *)
(***************************************************************************)
EXTENDS Integers, Sequences, FiniteSets, TLC

VARIABLES
    pc,             \* position of the code being run
    prev_items,     \* display.c:100, the retained list's items
    prev_items_len, \* display.c:101
    items,          \* do_update's local list (display.c:494)
    damaged,        \* do_update's local rectangle (display.c:502)
    last_orig,      \* history: the list the last dumb_diff call was given as orig
    pixels,         \* screen->pixels, the framebuffer
    du_ypos,        \* do_update's row counter (display.c:534)
    last_repaint,   \* history: the last repaint's framebuffer before it, writes,
                    \* source reads and draw_x calls
    message,        \* process_message's local message (display.c:546)
    prev_message,   \* display.c:99, 0 for NULL
    prev_ptr,       \* the address held by prev_items, 0 for NULL
    items_ptr,      \* the address held by do_update's items, 0 for NULL
    keyboard_pid,   \* the subscriber to input events, 0 while there is none
    surface_pixels, \* surface->pixels, the SDL surface
    scale,          \* screen->scale (display.c:905)
    must_lock,      \* SDL_MUSTLOCK(surface)
    locked,         \* the surface's count of locks held
    n_msgs,         \* number of messages taken so far
    trace,          \* history: the events of the session, in order
    dd,             \* dumb_diff's locals i, j and *damaged, with what its last
                    \* iteration compared and found
    cr_pc,          \* position of the thread in display_create_port
    dl_pc,          \* position of the display_loop thread
    ready_mutex,    \* display.c:91, the thread holding it or "free"
    the_ctx,        \* display.c:78, 0 for NULL
    event,          \* display_loop's SDL_Event being dispatched, with the ctx passed
    sent,           \* history: the input events sent to the subscriber
    n_events,       \* number of SDL events received so far
    ev_accessed     \* history: the shared objects the event loop has read or written

du_vars == <<pc, prev_items, prev_items_len, items, damaged, last_orig, pixels, du_ypos,
             last_repaint, prev_ptr, items_ptr, trace>>

pm_vars == <<message, prev_message, keyboard_pid, surface_pixels, scale, must_lock,
             locked, n_msgs>>

th_vars == <<cr_pc, dl_pc, ready_mutex, the_ctx, event, sent, n_events, ev_accessed>>

vars == <<du_vars, pm_vars, dd, th_vars>>

(***************************************************************************)
(* Bounds of the model.                                                    *)
(***************************************************************************)
MaxItems == 3

(***************************************************************************)
(* Program constants.                                                      *)
(***************************************************************************)
CHAR_WIDTH == 8

int_min(a, b) == IF a > b THEN b ELSE a

int_max(a, b) == IF a > b THEN a ELSE b

(***************************************************************************)
(* Colours.  init_item stores an RGB integer as (rgb << 8) | 0xFF and the  *)
(* atom transparent as 0.                                                  *)
(***************************************************************************)
NoColor == <<0, 0, 0, 0>>

rgb_to_color(rgb) == <<rgb[1], rgb[2], rgb[3], 255>>

bgcolor_of(bg) == IF bg = "transparent" THEN NoColor ELSE rgb_to_color(bg)

strlen(s) == Len(s)

(***************************************************************************)
(* BaseDisplayItem.  Fields that init_item leaves unset for a kind are     *)
(* never read for that kind and are written as 0 here.  pix names a pixel  *)
(* buffer owned by the image cache; text is the string's characters.       *)
(***************************************************************************)
BaseDisplayItem(prim, x, y, w, h, br) ==
    [primitive |-> prim, x |-> x, y |-> y, width |-> w, height |-> h,
     brcolor |-> br, pix |-> 0, img_width |-> 0, img_height |-> 0,
     fgcolor |-> NoColor, text |-> <<>>,
     source_x |-> 0, source_y |-> 0, x_scale |-> 0, y_scale |-> 0]

init_item_image(x, y, bg, img) ==
    [BaseDisplayItem("Image", x, y, img.width, img.height, bgcolor_of(bg))
        EXCEPT !.pix = img.pix]

init_item_scaled_cropped_image(x, y, w, h, bg, sx, sy, xs, ys, img) ==
    [BaseDisplayItem("ScaledCroppedImage", x, y, w, h, bgcolor_of(bg))
        EXCEPT !.pix = img.pix, !.img_width = img.width, !.img_height = img.height,
               !.source_x = sx, !.source_y = sy, !.x_scale = xs, !.y_scale = ys]

init_item_rect(x, y, w, h, rgb) ==
    BaseDisplayItem("Rect", x, y, w, h, rgb_to_color(rgb))

init_item_text(x, y, fg, bg, text) ==
    [BaseDisplayItem("Text", x, y, strlen(text) * 8, 16, bgcolor_of(bg))
        EXCEPT !.fgcolor = rgb_to_color(fg), !.text = text]

(***************************************************************************)
(* data.image_data.pix as cmp_display_item reads it.  The union overlays   *)
(* struct ImageData {pix} on struct ImageDataWithSize {width, height,      *)
(* pix}: for a ScaledCroppedImage, whose payload init_item stores through  *)
(* image_data_with_size, the pointer-sized first member read through       *)
(* image_data is the two ints width and height (LP64 layout of the SDL     *)
(* host), not the pixel buffer.                                            *)
(***************************************************************************)
image_data_pix(a) ==
    IF a.primitive = "ScaledCroppedImage"
    THEN <<"size", a.img_width, a.img_height>>
    ELSE <<"pix", a.pix>>

cmp_display_item(a, b) ==
    IF a.primitive # b.primitive \/ a.x # b.x \/ a.y # b.y
       \/ a.width # b.width \/ a.height # b.height \/ a.brcolor # b.brcolor
    THEN FALSE
    ELSE CASE a.primitive = "Image" -> image_data_pix(a) = image_data_pix(b)
           [] a.primitive = "Rect" -> TRUE
           [] a.primitive = "Text" -> a.fgcolor = b.fgcolor /\ a.text = b.text
           [] a.primitive = "ScaledCroppedImage" ->
                  image_data_pix(a) = image_data_pix(b)
                  /\ a.x_scale = b.x_scale /\ a.y_scale = b.y_scale
                  /\ a.source_x = b.source_x /\ a.source_y = b.source_y
           [] OTHER -> TRUE

(***************************************************************************)
(* struct Rectangle.  do_update sets only valid = false before the diff;   *)
(* the other fields are not read while the rectangle is invalid.           *)
(***************************************************************************)
Rectangle(x, y, w, h, v) == [x |-> x, y |-> y, width |-> w, height |-> h, valid |-> v]

InvalidRectangle == Rectangle(0, 0, 0, 0, FALSE)

irect(item) == Rectangle(item.x, item.y, item.width, item.height, TRUE)

(* area->x and area->y are assigned first, and the width and height lines  *)
(* read them after the assignment.                                         *)
update_damaged_area(area, damage) ==
    IF area.valid
    THEN LET x == int_min(area.x, damage.x)
             y == int_min(area.y, damage.y)
         IN  Rectangle(x, y,
                       int_max(x + area.width, damage.x + damage.width) - x,
                       int_max(y + area.height, damage.y + damage.height) - y,
                       TRUE)
    ELSE Rectangle(damage.x, damage.y, damage.width, damage.height, TRUE)

clip_rectangle(rectangle, clip_region) ==
    LET x == int_max(rectangle.x, clip_region.x)
        y == int_max(rectangle.y, clip_region.y)
    IN  Rectangle(x, y,
                  int_min(x + rectangle.width, clip_region.x + clip_region.width) - x,
                  int_min(y + rectangle.height, clip_region.y + clip_region.height) - y,
                  rectangle.valid)

(***************************************************************************)
(* dumb_diff.  The comparison at display.c:192 reads orig[j] without       *)
(* checking j < orig_len; such a read is outside the array and its result  *)
(* is either truth value, so dumb_diff is the set of its outcomes.         *)
(***************************************************************************)
RECURSIVE damage_items(_, _, _, _)
damage_items(list, l, last, dmg) ==
    IF l > last THEN dmg
    ELSE damage_items(list, l + 1, last, update_damaged_area(dmg, irect(list[l + 1])))

diff_body_ignores_match(orig, new, i, j, dmg, eq) ==
    LET ks == {k \in (j + 1)..(Len(orig) - 1) : cmp_display_item(new[i + 1], orig[k + 1])}
    IN  IF ks # {}
        THEN LET k == CHOOSE m \in ks : \A n \in ks : m <= n
             IN  [j |-> k + 1, damaged |-> damage_items(orig, k - j, k - 1, dmg)]
        ELSE [j |-> j, damaged |-> update_damaged_area(dmg, irect(new[i + 1]))]

\* the body of the loop over i, given the result eq of the comparison with orig[j]
diff_body(orig, new, i, j, dmg, eq) ==
    IF eq THEN [j |-> j + 1, damaged |-> dmg]
    ELSE LET ks == {k \in (j + 1)..(Len(orig) - 1) : cmp_display_item(new[i + 1], orig[k + 1])}
         IN  IF ks # {}
             THEN LET k == CHOOSE m \in ks : \A n \in ks : m <= n
                  IN  [j |-> k + 1, damaged |-> damage_items(orig, k - j, k - 1, dmg)]
             ELSE [j |-> j, damaged |-> update_damaged_area(dmg, irect(new[i + 1]))]

RECURSIVE diff_loop(_, _, _, _, _, _)
diff_loop(orig, new, i, j, dmg, oob) ==
    IF i >= Len(new) THEN {[damaged |-> dmg, j |-> j, oob_read |-> oob]}
    ELSE IF j < Len(orig)
         THEN LET r == diff_body(orig, new, i, j, dmg, cmp_display_item(new[i + 1], orig[j + 1]))
              IN  diff_loop(orig, new, i + 1, r.j, r.damaged, oob)
         ELSE UNION {LET r == diff_body(orig, new, i, j, dmg, eq)
                     IN  diff_loop(orig, new, i + 1, r.j, r.damaged, TRUE)
                     : eq \in BOOLEAN}

dumb_diff(orig, orig_len, new, new_len, dmg) ==
    IF orig_len = 0
    THEN {[damaged |-> damage_items(new, 0, new_len - 1, dmg), j |-> 0, oob_read |-> FALSE]}
    ELSE diff_loop(orig, new, 0, 0, dmg, FALSE)

(***************************************************************************)
(* The framebuffer screen->pixels holds ScreenW * ScreenH pixels, row by   *)
(* row (display.c:902-909): pixel index ScreenW * r + c is pixels[r][c].  SDL_MapRGB packs the three colour bytes into  *)
(* the surface's 32-bit format, whose top byte stays 0.                    *)
(***************************************************************************)
SDL_MapRGB(r, g, b) == <<0, r, g, b>>

uint32_color_to_surface(color) == SDL_MapRGB(color[1], color[2], color[3])

FillPixel == <<128, 128, 128, 128>>

(***************************************************************************)
(* Pixel buffers of the image cache, as the 32-bit values the renderers    *)
(* read (the top byte is the one tested for opacity).  A read outside the  *)
(* buffer yields junk.                                                     *)
(***************************************************************************)
PxT == <<0, 9, 9, 9>>
PxA == <<127, 1, 2, 3>>
PxB == <<127, 4, 5, 6>>
PxC == <<127, 7, 8, 9>>

ImageBuf(pix) ==
    CASE pix = 1 -> <<PxT, PxA>>
      [] pix = 2 -> <<PxA, PxB, PxC, PxT>>
      [] pix = 3 -> <<PxB, PxT, PxC, PxA>>
      [] OTHER -> <<>>

read_pixel(pix, idx, junk) ==
    IF idx >= 0 /\ idx < Len(ImageBuf(pix)) THEN ImageBuf(pix)[idx + 1] ELSE junk

(***************************************************************************)
(* The resident 8x16 font (font.c): fontdata[c * 16 + r] is scanline r of  *)
(* character c, most significant bit leftmost.                             *)
(***************************************************************************)
fontdata(c, r) ==
    CASE c = 65 -> IF r % 4 = 0 THEN 0 ELSE IF r % 2 = 0 THEN 255 ELSE 165
      [] c = 66 -> IF r < 8 THEN 240 ELSE 15
      [] OTHER -> 0

bit_set_lsb_first(row, k) == (row \div (2 ^ k)) % 2 = 1

bit_set(row, k) == (row \div (2 ^ (7 - k))) % 2 = 1

(***************************************************************************)
(* Row renderers.  Each returns the run it writes at pixmem32[0..] (the    *)
(* framebuffer from (xpos, ypos) on) and, for the scaled image, the source *)
(* positions it reads; drawn_pixels is the run's length.                   *)
(***************************************************************************)
clip_width_ignores_span(width, xpos, x, max_line_len) == width

clip_width(width, xpos, x, max_line_len) ==
    IF width > xpos - x + max_line_len THEN xpos - x + max_line_len ELSE width

RECURSIVE image_loop(_, _, _, _, _, _)
image_loop(item, ypos, j, width, junk, run) ==
    IF j >= width THEN run
    ELSE LET px == read_pixel(item.pix, (ypos - item.y) * item.width + j, junk)
         IN  IF px[1] # 0
             THEN image_loop(item, ypos, j + 1, width, junk,
                             Append(run, uint32_color_to_surface(px)))
             ELSE IF item.brcolor # NoColor
             THEN image_loop(item, ypos, j + 1, width, junk,
                             Append(run, uint32_color_to_surface(item.brcolor)))
             ELSE run

draw_image_x(xpos, ypos, max_line_len, item, junk) ==
    [run |-> image_loop(item, ypos, xpos - item.x,
                        clip_width(item.width, xpos, item.x, max_line_len), junk, <<>>),
     reads |-> {}]

\* the source position the pointer pixels holds when output column j is
\* drawn: set from xpos at display.c:324, and from the column drawn before
\* at display.c:346; dx and dy are the output offsets j and ypos - y the
\* read is made for
scaled_source(item, xpos, ypos, j) ==
    [col |-> item.source_x
             + (IF j = xpos - item.x THEN (xpos - item.x) \div item.x_scale
                ELSE (j - 1) \div item.x_scale),
     row |-> item.source_y + (ypos - item.y) \div item.y_scale,
     pix |-> item.pix, img_width |-> item.img_width, img_height |-> item.img_height,
     dx |-> j, dy |-> ypos - item.y,
     source_x |-> item.source_x, source_y |-> item.source_y,
     x_scale |-> item.x_scale, y_scale |-> item.y_scale]

RECURSIVE scaled_loop(_, _, _, _, _, _, _)
scaled_loop(item, xpos, ypos, j, width, junk, acc) ==
    IF j >= width THEN acc
    ELSE LET src == scaled_source(item, xpos, ypos, j)
             px == read_pixel(item.pix, src.row * item.img_width + src.col, junk)
             rd == acc.reads \cup {src}
         IN  IF px[1] # 0
             THEN scaled_loop(item, xpos, ypos, j + 1, width, junk,
                      [run |-> Append(acc.run, uint32_color_to_surface(px)), reads |-> rd])
             ELSE IF item.brcolor # NoColor
             THEN scaled_loop(item, xpos, ypos, j + 1, width, junk,
                      [run |-> Append(acc.run, uint32_color_to_surface(item.brcolor)),
                       reads |-> rd])
             ELSE [run |-> acc.run, reads |-> rd]

draw_scaled_cropped_img_x(xpos, ypos, max_line_len, item, junk) ==
    LET width == IF item.source_x + (item.width \div item.x_scale) > item.img_width
                 THEN (item.img_width - item.source_x) * item.x_scale
                 ELSE item.width
    IN  scaled_loop(item, xpos, ypos, xpos - item.x,
                    clip_width(width, xpos, item.x, max_line_len), junk,
                    [run |-> <<>>, reads |-> {}])

draw_rect_x(xpos, ypos, max_line_len, item) ==
    LET width == clip_width(item.width, xpos, item.x, max_line_len)
        color == uint32_color_to_surface(item.brcolor)
    IN  [run |-> [k \in 1..int_max(0, width - (xpos - item.x)) |-> color], reads |-> {}]

RECURSIVE text_loop(_, _, _, _, _)
text_loop(item, ypos, j, width, run) ==
    IF j >= width THEN run
    ELSE LET char_index == j \div CHAR_WIDTH
             c == item.text[char_index + 1]
             row == fontdata(c, ypos - item.y)
             k == j % CHAR_WIDTH
         IN  IF bit_set(row, k)
             THEN text_loop(item, ypos, j + 1, width,
                            Append(run, uint32_color_to_surface(item.fgcolor)))
             ELSE IF item.brcolor # NoColor
             THEN text_loop(item, ypos, j + 1, width,
                            Append(run, uint32_color_to_surface(item.brcolor)))
             ELSE run

draw_text_x(xpos, ypos, max_line_len, item) ==
    [run |-> text_loop(item, ypos, xpos - item.x,
                       clip_width(item.width, xpos, item.x, max_line_len), <<>>),
     reads |-> {}]

(***************************************************************************)
(* The compositor.                                                         *)
(***************************************************************************)
ScreenW == 9
ScreenH == 16

find_max_line_len_unbounded(list, count, xpos, ypos) == ScreenW

find_max_line_len(list, count, xpos, ypos) ==
    LET lens == {list[i + 1].x - xpos : i \in {n \in 0..(count - 1) :
                    /\ xpos < list[n + 1].x
                    /\ ypos >= list[n + 1].y
                    /\ ypos < list[n + 1].y + list[n + 1].height}}
                \cup {ScreenW}
    IN  CHOOSE m \in lens : \A n \in lens : m <= n

draw_item_x(xpos, ypos, max_line_len, item, junk) ==
    CASE item.primitive = "Image" -> draw_image_x(xpos, ypos, max_line_len, item, junk)
      [] item.primitive = "ScaledCroppedImage" ->
             draw_scaled_cropped_img_x(xpos, ypos, max_line_len, item, junk)
      [] item.primitive = "Rect" -> draw_rect_x(xpos, ypos, max_line_len, item)
      [] item.primitive = "Text" -> draw_text_x(xpos, ypos, max_line_len, item)
      [] OTHER -> [run |-> <<>>, reads |-> {}]

covers(item, xpos, ypos) ==
    ~(xpos < item.x \/ xpos >= item.x + item.width
      \/ ypos < item.y \/ ypos >= item.y + item.height)

\* batched = FALSE is the reference compositor, which gives every renderer
\* call the span 1
RECURSIVE draw_x_loop(_, _, _, _, _, _, _, _, _)
draw_x_loop(batched, junk, xpos, ypos, list, items_count, i, below, reads) ==
    IF i >= items_count
    THEN [drawn_pixels |-> 1, run |-> <<>>, i |-> -1, span |-> 0, below |-> below,
          reads |-> reads]
    ELSE IF ~covers(list[i + 1], xpos, ypos)
    THEN draw_x_loop(batched, junk, xpos, ypos, list, items_count, i + 1, below, reads)
    ELSE LET max_line_len == IF below \/ ~batched THEN 1
                             ELSE find_max_line_len(list, i, xpos, ypos)
             r == draw_item_x(xpos, ypos, max_line_len, list[i + 1], junk)
         IN  IF Len(r.run) # 0
             THEN [drawn_pixels |-> Len(r.run), run |-> r.run, i |-> i,
                   span |-> max_line_len, below |-> below, reads |-> reads \cup r.reads]
             ELSE draw_x_loop(batched, junk, xpos, ypos, list, items_count, i + 1, TRUE,
                              reads \cup r.reads)

draw_x(xpos, ypos, list, items_count, junk) ==
    draw_x_loop(TRUE, junk, xpos, ypos, list, items_count, 0, FALSE, {})

draw_x_span1(xpos, ypos, list, items_count, junk) ==
    draw_x_loop(FALSE, junk, xpos, ypos, list, items_count, 0, FALSE, {})

(***************************************************************************)
(* The inner loop of do_update, display.c:535-539.  A repaint state is     *)
(* the framebuffer, the writes made (row being repainted, pixel index      *)
(* written; an index from ScreenW * ScreenH on is outside the array), the  *)
(* source positions read and the draw_x calls made.                        *)
(***************************************************************************)
apply_run(st, xpos, ypos, d) ==
    LET base == ScreenW * ypos + xpos
        run == d.run
        n == Len(run)
        last_row == (base + n - 1) \div ScreenW
    IN  [fb |-> IF n = 0 THEN st.fb
                ELSE [r \in DOMAIN st.fb |->
                        IF r < ypos \/ r > last_row THEN st.fb[r]
                        ELSE [c \in DOMAIN st.fb[r] |->
                                LET p == ScreenW * r + c
                                IN  IF p >= base /\ p < base + n THEN run[p - base + 1]
                                    ELSE st.fb[r][c]]],
         writes |-> st.writes \cup {<<ypos, base + k>> : k \in 0..(n - 1)},
         reads |-> st.reads \cup d.reads,
         calls |-> st.calls \cup {[x |-> xpos, y |-> ypos, i |-> d.i, span |-> d.span,
                                   below |-> d.below, drawn_pixels |-> d.drawn_pixels,
                                   written |-> n]}]

RECURSIVE repaint_row(_, _, _, _, _, _, _)
repaint_row(st, batched, junk, xpos, ypos, list, rect) ==
    IF ~(xpos < rect.x + rect.width) THEN st
    ELSE LET d == IF batched THEN draw_x(xpos, ypos, list, Len(list), junk)
                  ELSE draw_x_span1(xpos, ypos, list, Len(list), junk)
         IN  repaint_row(apply_run(st, xpos, ypos, d), batched, junk,
                         xpos + d.drawn_pixels, ypos, list, rect)

screen_rect == Rectangle(0, 0, ScreenW, ScreenH, TRUE)

(***************************************************************************)
(* The history of the session.  An event names what happened, the message  *)
(* being processed (its ref) and the object concerned.  An allocation is   *)
(* named by the ref of the message it was made for, so that two            *)
(* allocations never share a name even where malloc reuses an address.     *)
(***************************************************************************)
Obj(kind, id, idx) == [kind |-> kind, id |-> id, idx |-> idx]

NoObj == Obj("none", 0, 0)

Ev(e, obj) == [ev |-> e, ref |-> message.ref, obj |-> obj]

RECURSIVE destroy_items_loop(_, _, _, _, _)
destroy_items_loop(list, ptr, items_count, i, free_pix) ==
    IF ~(i < items_count) THEN <<>>
    ELSE LET item == list[i + 1]
             freed == CASE item.primitive = "Text" -> <<Obj("text", ptr, i)>>
                        [] item.primitive \in {"Image", "ScaledCroppedImage"} /\ free_pix ->
                               <<Obj("pix", item.pix, 0)>>
                        [] OTHER -> <<>>
         IN  freed \o destroy_items_loop(list, ptr, items_count, i + 1, free_pix)

\* destroy_items with a free of the pixel buffers added
destroy_items_frees_pix(list, ptr, items_count) ==
    destroy_items_loop(list, ptr, items_count, 0, TRUE) \o <<Obj("items", ptr, 0)>>

\* the objects destroy_items frees, in order
destroy_items(list, ptr, items_count) ==
    destroy_items_loop(list, ptr, items_count, 0, FALSE) \o <<Obj("items", ptr, 0)>>

\* destroy_message
destroy_message(msg) == Obj("message", msg, 0)

(***************************************************************************)
(* do_update, display.c:492-500: the allocation of the new list and        *)
(* init_item on each element.  malloc may fail: with a non-empty list the  *)
(* first init_item stores through the null pointer, which ends the         *)
(* process; with an empty list the loop does not run and do_update goes on *)
(* with items = NULL.                                                      *)
(***************************************************************************)
DuAlloc ==
    /\ pc = "du_alloc"
    /\ \E ok \in BOOLEAN :
          IF ok
          THEN /\ items' = message.list
               /\ items_ptr' = message.ref
               /\ trace' = Append(trace, [ev |-> "alloc", ref |-> message.ref,
                                          obj |-> Obj("items", message.ref, 0),
                                          list |-> message.list])
               /\ pc' = "du_diff"
          ELSE /\ items' = <<>>
               /\ items_ptr' = 0
               /\ IF Len(message.list) > 0
                  THEN /\ trace' = trace \o <<Ev("alloc_failed", NoObj), Ev("crash", NoObj)>>
                       /\ pc' = "crashed"
                  ELSE /\ trace' = Append(trace, Ev("alloc_failed", NoObj))
                       /\ pc' = "du_diff"
    /\ UNCHANGED <<prev_items, prev_items_len, damaged, last_orig, pixels, du_ypos,
                   last_repaint, prev_ptr, pm_vars, dd, th_vars>>

(***************************************************************************)
(* do_update, display.c:502-515: the diff against the retained list, the   *)
(* destruction of the retained list, the adoption of the new list, and the *)
(* decision to skip the repaint.                                           *)
(***************************************************************************)
\* damage and clipped are the damage rectangle before and after the clip at
\* display.c:524
NoRepaint == [before |-> <<>>, ref |-> <<>>, writes |-> {}, reads |-> {}, calls |-> {},
              damage |-> InvalidRectangle, clipped |-> InvalidRectangle]

DuDiff ==
    /\ pc = "du_diff"
    /\ \E r \in dumb_diff(prev_items, prev_items_len, items, Len(items), InvalidRectangle) :
          damaged' = r.damaged
    /\ last_orig' = prev_items
    /\ last_repaint' = NoRepaint
    /\ trace' = Append(trace, Ev("diff", NoObj))
    /\ pc' = "du_destroy"
    /\ UNCHANGED <<prev_items, prev_items_len, items, pixels, du_ypos, prev_ptr,
                   items_ptr, pm_vars, dd, th_vars>>

DuDestroy ==
    /\ pc = "du_destroy"
    /\ IF prev_ptr # 0
       THEN LET freed == destroy_items(prev_items, prev_ptr, prev_items_len)
            IN  trace' = trace \o [k \in 1..Len(freed) |-> Ev("free", freed[k])]
                               \o <<Ev("free", destroy_message(prev_message))>>
       ELSE trace' = trace
    /\ pc' = "du_adopt"
    /\ UNCHANGED <<prev_items, prev_items_len, items, damaged, last_orig, pixels, du_ypos,
                   last_repaint, prev_ptr, items_ptr, pm_vars, dd, th_vars>>

DuAdopt_always_repaints ==
    /\ pc = "du_adopt"
    /\ prev_items' = items
    /\ prev_ptr' = items_ptr
    /\ prev_items_len' = Len(items)
    /\ trace' = Append(trace, Ev("adopt", Obj("items", items_ptr, 0)))
    /\ pc' = "du_repaint"
    /\ UNCHANGED <<items, damaged, last_orig, pixels, du_ypos, last_repaint, items_ptr,
                   pm_vars, dd, th_vars>>

DuAdopt ==
    /\ pc = "du_adopt"
    /\ prev_items' = items
    /\ prev_ptr' = items_ptr
    /\ prev_items_len' = Len(items)
    /\ trace' = Append(trace, Ev("adopt", Obj("items", items_ptr, 0)))
    /\ pc' = IF ~damaged.valid THEN "du_return" ELSE "du_repaint"
    /\ UNCHANGED <<items, damaged, last_orig, pixels, du_ypos, last_repaint, items_ptr,
                   pm_vars, dd, th_vars>>

(***************************************************************************)
(* do_update, display.c:517-540: the clip, the whole-screen workaround and *)
(* the repaint.                                                            *)
(***************************************************************************)
JunkPixels == {PxT, PxC}

\* the clip without the workaround of display.c:526-532
DuClip_without_workaround ==
    /\ pc = "du_repaint"
    /\ damaged' = clip_rectangle(damaged, screen_rect)
    /\ du_ypos' = clip_rectangle(damaged, screen_rect).y
    /\ last_repaint' = [NoRepaint EXCEPT !.before = pixels, !.ref = pixels,
                                         !.damage = damaged,
                                         !.clipped = clip_rectangle(damaged, screen_rect)]
    /\ pc' = "du_rows"
    /\ UNCHANGED <<prev_items, prev_items_len, items, last_orig, pixels, prev_ptr,
                   items_ptr, trace, pm_vars, dd, th_vars>>

DuClip ==
    /\ pc = "du_repaint"
    /\ LET clipped == clip_rectangle(damaged, screen_rect)
       IN  damaged' = [clipped EXCEPT !.x = 0, !.y = 0,
                                      !.height = ScreenH, !.width = ScreenW]
    /\ du_ypos' = 0
    /\ last_repaint' = [NoRepaint EXCEPT !.before = pixels, !.ref = pixels,
                                         !.damage = damaged,
                                         !.clipped = clip_rectangle(damaged, screen_rect)]
    /\ pc' = "du_rows"
    /\ UNCHANGED <<prev_items, prev_items_len, items, last_orig, pixels, prev_ptr,
                   items_ptr, trace, pm_vars, dd, th_vars>>

\* a source read outside the pixel buffer
outside_buffer(src) ==
    ~(src.row * src.img_width + src.col < Len(ImageBuf(src.pix)))

\* one iteration of the loop over ypos; last_repaint.ref is what the
\* reference compositor (span 1) makes of the same rows.  The junk a read
\* outside a pixel buffer yields is chosen only in a row that makes one.
DuRow ==
    /\ pc = "du_rows"
    /\ du_ypos < damaged.y + damaged.height
    /\ LET row(fb, batched, junk) ==
               repaint_row([fb |-> fb, writes |-> {}, reads |-> {}, calls |-> {}], batched, junk,
                           damaged.x, du_ypos, items, damaged)
           probe == row(pixels, TRUE, PxT)
           junks == IF \E src \in probe.reads : outside_buffer(src)
                    THEN JunkPixels ELSE {PxT}
       IN  \E junk \in junks :
             LET st == IF junk = PxT THEN probe ELSE row(pixels, TRUE, junk)
                 rf == row(last_repaint.ref, FALSE, junk)
             IN  /\ pixels' = st.fb
                 /\ last_repaint' = [before |-> last_repaint.before, ref |-> rf.fb,
                                     writes |-> last_repaint.writes \cup st.writes,
                                     reads |-> last_repaint.reads \cup st.reads,
                                     calls |-> last_repaint.calls \cup st.calls,
                                     damage |-> last_repaint.damage,
                                     clipped |-> last_repaint.clipped]
    /\ du_ypos' = du_ypos + 1
    /\ UNCHANGED <<pc, prev_items, prev_items_len, items, damaged, last_orig, prev_ptr,
                   items_ptr, trace, pm_vars, dd, th_vars>>

DuRowsDone ==
    /\ pc = "du_rows"
    /\ ~(du_ypos < damaged.y + damaged.height)
    /\ trace' = Append(trace, Ev("repaint", NoObj))
    /\ pc' = "du_return"
    /\ UNCHANGED <<prev_items, prev_items_len, items, damaged, last_orig, pixels,
                   last_repaint, du_ypos, prev_ptr, items_ptr, pm_vars, dd, th_vars>>

InitialPixels == [r \in 0..(ScreenH - 1) |-> [c \in 0..(ScreenW - 1) |-> FillPixel]]

(***************************************************************************)
(* The diff on its own: do_update at the diff (display.c:502), with any    *)
(* retained list and any new list.                                         *)
(***************************************************************************)
Img1 == [width |-> 2, height |-> 1, pix |-> 1]

DiffPool ==
    { init_item_rect(4, 0, 4, 2, <<1, 0, 0>>),
      init_item_rect(0, 1, 2, 1, <<0, 1, 0>>),
      init_item_text(1, 0, <<0, 0, 1>>, "transparent", <<65>>),
      init_item_image(3, 3, "transparent", Img1) }

ListsOver(pool, n) == UNION {[1..k -> pool] : k \in 0..n}

\* dumb_diff not running
NoDd == [i |-> 0, j |-> 0, damaged |-> InvalidRectangle, oob_read |-> FALSE,
         last |-> "none", last_j |-> 0, last_k |-> 0, last_eq |-> FALSE]

NoEvent == [type |-> "none", ctx |-> 0]

\* the threads once display_create_port has returned (display.c:858) with
\* the display thread in its event loop (display.c:925)
PortRunning ==
    /\ cr_pc = "returned"
    /\ dl_pc = "wait_event"
    /\ ready_mutex = "free"
    /\ the_ctx = 1
    /\ event = NoEvent
    /\ sent = <<>>
    /\ n_events = 0
    /\ ev_accessed = {}

\* the variables of an update in progress that has reached the diff; the
\* retained list belongs to message 1 and the new one to message 2
AtDiff(orig, new) ==
    /\ pc = "du_diff"
    /\ prev_items = orig
    /\ prev_items_len = Len(orig)
    /\ prev_ptr = 1
    /\ prev_message = 1
    /\ items = new
    /\ items_ptr = 2
    /\ message = [ref |-> 2, kind |-> "update", arity |-> 2, pid |-> 1, list |-> new]
    /\ n_msgs = 2
    /\ damaged = InvalidRectangle
    /\ last_orig = <<>>
    /\ pixels = InitialPixels
    /\ du_ypos = 0
    /\ last_repaint = NoRepaint
    /\ keyboard_pid = 0
    /\ scale = 1
    /\ surface_pixels = InitialPixels
    /\ must_lock = FALSE
    /\ locked = 0
    /\ trace = <<>>
    /\ dd = NoDd
    /\ PortRunning

DiffInit ==
    \E orig \in ListsOver(DiffPool, MaxItems), new \in ListsOver(DiffPool, MaxItems) :
        AtDiff(orig, new)

DiffNext == DuDiff \/ DuDestroy \/ DuAdopt

SpecDiff == DiffInit /\ [][DiffNext]_vars

(***************************************************************************)
(* dumb_diff step by step: one action per iteration of the loop over i     *)
(* (display.c:191-225).  dd holds the locals i and j, the damage built so  *)
(* far, whether orig[j] was read with j >= orig_len, and what the last     *)
(* iteration did: "match" (display.c:193), "skip" to the match found at    *)
(* last_k from last_j (display.c:197-211), or "new" (display.c:214-222).   *)
(***************************************************************************)
DdStart ==
    /\ pc = "du_diff"
    /\ dd' = IF prev_items_len = 0
             THEN [NoDd EXCEPT !.i = Len(items),
                               !.damaged = damage_items(items, 0, Len(items) - 1,
                                                        InvalidRectangle),
                               !.last = "all_new"]
             ELSE [NoDd EXCEPT !.last = "start"]
    /\ pc' = "dd_loop"
    /\ UNCHANGED <<prev_items, prev_items_len, items, damaged, last_orig, pixels, du_ypos,
                   last_repaint, prev_ptr, items_ptr, trace, pm_vars, th_vars>>

DdIter ==
    /\ pc = "dd_loop"
    /\ dd.i < Len(items)
    /\ \E eq \in BOOLEAN :
          /\ dd.j < prev_items_len => eq = cmp_display_item(items[dd.i + 1], prev_items[dd.j + 1])
          /\ LET r == diff_body(prev_items, items, dd.i, dd.j, dd.damaged, eq)
             IN  dd' = [i |-> dd.i + 1, j |-> r.j, damaged |-> r.damaged,
                        oob_read |-> dd.oob_read \/ dd.j >= prev_items_len,
                        last |-> IF eq THEN "match" ELSE IF r.j # dd.j THEN "skip" ELSE "new",
                        last_j |-> dd.j,
                        last_k |-> IF ~eq /\ r.j # dd.j THEN r.j - 1 ELSE 0,
                        last_eq |-> eq]
    /\ UNCHANGED <<pc, prev_items, prev_items_len, items, damaged, last_orig, pixels, du_ypos,
                   last_repaint, prev_ptr, items_ptr, trace, pm_vars, th_vars>>

DdDone ==
    /\ pc = "dd_loop"
    /\ dd.i >= Len(items)
    /\ damaged' = dd.damaged
    /\ last_orig' = prev_items
    /\ last_repaint' = NoRepaint
    /\ trace' = Append(trace, Ev("diff", NoObj))
    /\ pc' = "du_destroy"
    /\ UNCHANGED <<prev_items, prev_items_len, items, pixels, du_ypos, prev_ptr,
                   items_ptr, pm_vars, dd, th_vars>>

DiffLoopNext == DdStart \/ DdIter \/ DdDone

SpecDiffLoop == DiffInit /\ [][DiffLoopNext]_vars

(***************************************************************************)
(* The clip of do_update (display.c:517-524) on its own: updates whose     *)
(* primitives have non-negative geometry and lie inside the framebuffer,   *)
(* partly beyond its right and bottom edges, or wholly beyond one of them, *)
(* up to the clip and the workaround that follows it.                      *)
(***************************************************************************)
MaxClipItems == 2

ClipPool ==
    { init_item_rect(0, 1, 2, 1, <<0, 1, 0>>),
      init_item_rect(6, 14, 5, 4, <<0, 0, 1>>),
      init_item_rect(12, 3, 3, 2, <<1, 0, 0>>),
      init_item_rect(2, 20, 3, 2, <<1, 0, 0>>),
      init_item_text(1, 0, <<0, 0, 1>>, "transparent", <<65>>) }

ClipInit ==
    \E orig \in ListsOver(ClipPool, MaxClipItems), new \in ListsOver(ClipPool, MaxClipItems) :
        AtDiff(orig, new)

ClipNext == DuDiff \/ DuDestroy \/ DuAdopt \/ DuClip

SpecClip == ClipInit /\ [][ClipNext]_vars

(***************************************************************************)
(* The compositor on its own: an update over an empty retained list, with  *)
(* any scene.                                                              *)
(***************************************************************************)
MaxDrawItems == 3

Img3 == [width |-> 2, height |-> 2, pix |-> 3]

Img4 == [width |-> 4, height |-> 1, pix |-> 3]

DrawPool ==
    { init_item_rect(0, 0, 4, 2, <<1, 0, 0>>),
      init_item_rect(2, 1, 5, 3, <<0, 1, 0>>),
      init_item_rect(6, 14, 5, 2, <<0, 0, 1>>),
      init_item_image(1, 1, "transparent", Img4),
      init_item_image(3, 1, <<2, 2, 2>>, Img1),
      init_item_text(0, 0, <<3, 0, 0>>, "transparent", <<65>>),
      init_item_text(1, 0, <<0, 3, 0>>, <<0, 0, 3>>, <<66>>),
      init_item_scaled_cropped_image(0, 1, 4, 2, "transparent", 0, 0, 2, 1, Img3),
      init_item_scaled_cropped_image(4, 0, 5, 3, "transparent", 0, 0, 2, 1, Img3) }

DrawInit == \E new \in ListsOver(DrawPool, MaxDrawItems) : AtDiff(<<>>, new)

DrawNext == DuDiff \/ DuDestroy \/ DuAdopt \/ DuClip \/ DuRow \/ DuRowsDone

SpecDraw == DrawInit /\ [][DrawNext]_vars

\* do_update runs in one thread without waiting for anything
\* (display.c:502-540): whenever it stands before a step it takes it.
\* DrawSched is the steps of DrawNext told by their guards and by what they
\* do to the position in do_update: each action of DrawNext is enabled
\* exactly when its guard holds, the rest of it being assignments.
DrawSched ==
    \/ pc = "du_diff" /\ pc' = "du_destroy" /\ du_ypos' = du_ypos
    \/ pc = "du_destroy" /\ pc' = "du_adopt" /\ du_ypos' = du_ypos
    \/ /\ pc = "du_adopt"
       /\ pc' = (IF ~damaged.valid THEN "du_return" ELSE "du_repaint")
       /\ du_ypos' = du_ypos
    \/ pc = "du_repaint" /\ pc' = "du_rows" /\ du_ypos' = 0
    \/ /\ pc = "du_rows" /\ du_ypos < damaged.y + damaged.height
       /\ pc' = pc /\ du_ypos' = du_ypos + 1
    \/ /\ pc = "du_rows" /\ ~(du_ypos < damaged.y + damaged.height)
       /\ pc' = "du_return" /\ du_ypos' = du_ypos

SpecDrawFair == SpecDraw /\ WF_<<pc, du_ypos>>(DrawSched)

(***************************************************************************)
(* The compositor over scenes of Text primitives: strings of one and two   *)
(* characters, with and without a background colour, some starting left of *)
(* the framebuffer so that the second character is on it, one on the lower *)
(* rows only.                                                              *)
(***************************************************************************)
MaxTextItems == 2

TextPool ==
    { init_item_text(0, 0, <<3, 0, 0>>, "transparent", <<66, 65>>),
      init_item_text(-7, 0, <<0, 3, 0>>, "transparent", <<65, 66>>),
      init_item_text(-4, 8, <<0, 3, 3>>, <<0, 0, 3>>, <<66, 66>>),
      init_item_text(1, 0, <<3, 3, 0>>, <<0, 0, 3>>, <<66>>),
      init_item_rect(0, 0, 4, 2, <<1, 0, 0>>) }

TextInit == \E new \in ListsOver(TextPool, MaxTextItems) : AtDiff(<<>>, new)

SpecText == TextInit /\ [][DrawNext]_vars

(***************************************************************************)
(* cmp_display_item on its own: dumb_diff over two lists of one primitive  *)
(* each, which compares new[0] with orig[0] at display.c:192.  The pool    *)
(* has, for every kind, primitives that differ in one field only.          *)
(***************************************************************************)
Img2 == [width |-> 2, height |-> 2, pix |-> 2]

Img5 == [width |-> 2, height |-> 1, pix |-> 2]

CmpPool ==
    { init_item_rect(0, 1, 2, 1, <<0, 1, 0>>),
      init_item_rect(0, 1, 2, 1, <<1, 0, 0>>),
      init_item_rect(1, 1, 2, 1, <<0, 1, 0>>),
      init_item_image(0, 1, "transparent", Img1),
      init_item_image(0, 1, "transparent", Img5),
      init_item_image(0, 1, <<0, 1, 0>>, Img1),
      init_item_text(1, 0, <<0, 0, 1>>, "transparent", <<65>>),
      init_item_text(1, 0, <<1, 0, 0>>, "transparent", <<65>>),
      init_item_text(1, 0, <<0, 0, 1>>, "transparent", <<66>>),
      init_item_scaled_cropped_image(0, 1, 4, 2, "transparent", 0, 0, 2, 1, Img3),
      init_item_scaled_cropped_image(0, 1, 4, 2, "transparent", 0, 0, 2, 1, Img2),
      init_item_scaled_cropped_image(0, 1, 4, 2, "transparent", 0, 0, 2, 1, Img4),
      init_item_scaled_cropped_image(0, 1, 4, 2, "transparent", 1, 0, 2, 1, Img3),
      init_item_scaled_cropped_image(0, 1, 4, 2, "transparent", 0, 0, 1, 1, Img3) }

CmpInit == \E a \in CmpPool, b \in CmpPool : AtDiff(<<b>>, <<a>>)

SpecCmp == CmpInit /\ [][DiffLoopNext]_vars

(***************************************************************************)
(* process_message, display.c:543-644.  A message is a gen_server call     *)
(* {'$call', {Pid, Ref}, Req} or something else ("invalid"); kind is the   *)
(* command atom of Req, arity the size of Req, list the display list of an *)
(* update.                                                                 *)
(***************************************************************************)
MaxMsgs == 3

MaxScale == 2

Request(kind, arity, pid, list) ==
    [kind |-> kind, arity |-> arity, pid |-> pid, list |-> list]

NoMessage == [ref |-> 0, kind |-> "none", arity |-> 0, pid |-> 0, list |-> <<>>]

UpdateLists ==
    { <<>>,
      <<init_item_text(1, 0, <<0, 0, 1>>, "transparent", <<65>>),
        init_item_image(3, 3, "transparent", Img1)>>,
      <<init_item_rect(0, 1, 2, 1, <<0, 1, 0>>),
        init_item_text(1, 0, <<0, 0, 1>>, "transparent", <<65>>),
        init_item_scaled_cropped_image(0, 1, 4, 2, "transparent", 0, 0, 2, 1, Img3)>> }

Requests ==
    {Request("update", 2, 1, l) : l \in UpdateLists}
        \cup { Request("subscribe_input", 2, 2, <<>>),
               Request("subscribe_input", 3, 1, <<>>),
               Request("load_image", 2, 1, <<>>),
               Request("register_font", 3, 1, <<>>),
               Request("other", 1, 1, <<>>),
               Request("invalid", 0, 1, <<>>) }

\* display.c:545-558: take the message and parse it
PmTakeFrom(requests, max) ==
    /\ pc = "idle"
    /\ n_msgs < max
    /\ \E req \in requests :
          /\ message' = [ref |-> n_msgs + 1, kind |-> req.kind, arity |-> req.arity,
                         pid |-> req.pid, list |-> req.list]
          /\ trace' = Append(trace, [ev |-> "take", ref |-> n_msgs + 1,
                                     obj |-> Obj(req.kind, n_msgs + 1, 0)])
          /\ pc' = IF req.kind = "invalid" THEN "invalid_message" ELSE "lock"
    /\ n_msgs' = n_msgs + 1
    /\ UNCHANGED <<prev_items, prev_items_len, items, damaged, last_orig, pixels, du_ypos,
                   last_repaint, prev_ptr, items_ptr, prev_message, keyboard_pid,
                   surface_pixels, scale, must_lock, locked, dd, th_vars>>

PmTake == PmTakeFrom(Requests, MaxMsgs)

\* display.c:560-564: SDL_LockSurface may fail, and then the handler returns.
\* SDL_MUSTLOCK reads through surface, which is null until display_loop has
\* set the video mode (display.c:891).
PmLock ==
    /\ pc = "lock"
    /\ IF surface_pixels = <<>>
       THEN /\ locked' = locked
            /\ trace' = Append(trace, Ev("crash", NoObj))
            /\ pc' = "crashed"
       ELSE IF must_lock
       THEN \E ok \in BOOLEAN :
               IF ok
               THEN locked' = locked + 1 /\ trace' = trace /\ pc' = "dispatch"
               ELSE /\ locked' = locked
                    /\ trace' = Append(trace, Ev("return", NoObj))
                    /\ pc' = "idle"
       ELSE locked' = locked /\ trace' = trace /\ pc' = "dispatch"
    /\ UNCHANGED <<prev_items, prev_items_len, items, damaged, last_orig, pixels, du_ypos,
                   last_repaint, prev_ptr, items_ptr, message, prev_message, keyboard_pid,
                   surface_pixels, scale, must_lock, n_msgs, dd, th_vars>>

\* display.c:566-613: the branch on the command.  handle_load_image is
\* outside this model's state; the other commands go on to the unlock.
PmDispatch ==
    /\ pc = "dispatch"
    /\ pc' = CASE message.kind = "update" -> "du_alloc"
               [] message.kind = "subscribe_input" ->
                      IF message.arity # 2 THEN "invalid_message" ELSE "unlock"
               [] message.kind = "load_image" -> "free_msg"
               [] OTHER -> "unlock"
    /\ keyboard_pid' = IF message.kind = "subscribe_input" /\ message.arity = 2
                       THEN message.pid ELSE keyboard_pid
    /\ UNCHANGED <<prev_items, prev_items_len, items, damaged, last_orig, pixels, du_ypos,
                   last_repaint, prev_ptr, items_ptr, trace, message, prev_message,
                   surface_pixels, scale, must_lock, locked, n_msgs, dd, th_vars>>

\* display.c:570-580: do_update has returned; keep the message and copy the
\* framebuffer, scaled up, to the surface
PmCopy ==
    /\ pc = "du_return"
    /\ prev_message' = message.ref
    /\ surface_pixels' = [y \in 0..(ScreenH * scale - 1) |->
                            [x \in 0..(ScreenW * scale - 1) |->
                                pixels[y \div scale][x \div scale]]]
    /\ trace' = Append(trace, Ev("copy", NoObj))
    /\ pc' = "unlock"
    /\ UNCHANGED <<prev_items, prev_items_len, items, damaged, last_orig, pixels, du_ypos,
                   last_repaint, prev_ptr, items_ptr, message, keyboard_pid, scale,
                   must_lock, locked, n_msgs, dd, th_vars>>

\* display.c:615-619: unlock and flip
PmFlip ==
    /\ pc = "unlock"
    /\ locked' = IF must_lock THEN locked - 1 ELSE locked
    /\ trace' = Append(trace, Ev("flip", NoObj))
    /\ pc' = "reply"
    /\ UNCHANGED <<prev_items, prev_items_len, items, damaged, last_orig, pixels, du_ypos,
                   last_repaint, prev_ptr, items_ptr, message, prev_message, keyboard_pid,
                   surface_pixels, scale, must_lock, n_msgs, dd, th_vars>>

\* display.c:621-631: make room for the reply tuple, or abort; send {Ref, ok}
PmReply ==
    /\ pc = "reply"
    /\ \E ok \in BOOLEAN :
          IF ok
          THEN /\ trace' = Append(trace, Ev("reply", Obj("ok", message.pid, 0)))
               /\ pc' = "free_msg"
          ELSE /\ trace' = Append(trace, Ev("abort", NoObj))
               /\ pc' = "aborted"
    /\ UNCHANGED <<prev_items, prev_items_len, items, damaged, last_orig, pixels, du_ypos,
                   last_repaint, prev_ptr, items_ptr, pm_vars, dd, th_vars>>

\* display.c:633-637: the report of an invalid message
PmInvalid ==
    /\ pc = "invalid_message"
    /\ trace' = Append(trace, Ev("invalid", NoObj))
    /\ pc' = "free_msg"
    /\ UNCHANGED <<prev_items, prev_items_len, items, damaged, last_orig, pixels, du_ypos,
                   last_repaint, prev_ptr, items_ptr, pm_vars, dd, th_vars>>

\* display.c:639-643: dispose of the message unless it is the retained one
PmFree ==
    /\ pc = "free_msg"
    /\ trace' = IF prev_message # message.ref
                THEN trace \o <<Ev("free", destroy_message(message.ref)), Ev("return", NoObj)>>
                ELSE Append(trace, Ev("return", NoObj))
    /\ pc' = "idle"
    /\ UNCHANGED <<prev_items, prev_items_len, items, damaged, last_orig, pixels, du_ypos,
                   last_repaint, prev_ptr, items_ptr, pm_vars, dd, th_vars>>

InitialSurface(s) ==
    [y \in 0..(ScreenH * s - 1) |-> [x \in 0..(ScreenW * s - 1) |-> FillPixel]]

\* the port after display_create_port, display.c:99-101 and 896-918
Init ==
    /\ pc = "idle"
    /\ prev_items = <<>>
    /\ prev_items_len = 0
    /\ prev_ptr = 0
    /\ prev_message = 0
    /\ items = <<>>
    /\ items_ptr = 0
    /\ damaged = InvalidRectangle
    /\ last_orig = <<>>
    /\ pixels = InitialPixels
    /\ du_ypos = 0
    /\ last_repaint = NoRepaint
    /\ message = NoMessage
    /\ keyboard_pid = 0
    /\ scale \in 1..MaxScale
    /\ surface_pixels = InitialSurface(scale)
    /\ must_lock \in BOOLEAN
    /\ locked = 0
    /\ n_msgs = 0
    /\ trace = <<>>
    /\ dd = NoDd
    /\ PortRunning

Next ==
    \/ PmTake \/ PmLock \/ PmDispatch
    \/ DuAlloc \/ DuDiff \/ DuDestroy \/ DuAdopt \/ DuClip \/ DuRow \/ DuRowsDone
    \/ PmCopy \/ PmFlip \/ PmReply \/ PmInvalid \/ PmFree

Spec == Init /\ [][Next]_vars

(***************************************************************************)
(* The handler fed with update requests only, whose scenes are Rect, Image *)
(* and Text primitives inside the framebuffer; some of them overlap.       *)
(***************************************************************************)
MaxSceneMsgs == 2

MaxSceneItems == 2

ScenePool ==
    { init_item_rect(0, 1, 2, 1, <<0, 1, 0>>),
      init_item_rect(1, 1, 2, 1, <<1, 0, 0>>),
      init_item_image(1, 1, "transparent", Img1),
      init_item_text(1, 0, <<0, 0, 1>>, "transparent", <<65>>) }

SceneRequests == {Request("update", 2, 1, l) : l \in ListsOver(ScenePool, MaxSceneItems)}

ScTake == PmTakeFrom(SceneRequests, MaxSceneMsgs)

ScenesNext ==
    \/ ScTake \/ PmLock \/ PmDispatch
    \/ DuAlloc \/ DuDiff \/ DuDestroy \/ DuAdopt \/ DuClip \/ DuRow \/ DuRowsDone
    \/ PmCopy \/ PmFlip \/ PmReply \/ PmFree

SpecScenes == Init /\ [][ScenesNext]_vars

(***************************************************************************)
(* The two threads of display_create_port (display.c:820-859) and          *)
(* display_loop (display.c:876-991).  pthread_cond_signal wakes a thread   *)
(* that is waiting at that moment and is otherwise without effect;         *)
(* pthread_cond_wait gives up the mutex while it waits, takes it again     *)
(* before it returns, and may return without a signal.  exit, abort and a  *)
(* crash end the whole process.                                            *)
(***************************************************************************)
MaxEvents == 2

MaxThreadMsgs == 2

Alive == pc \notin {"crashed", "aborted", "exited"}

Halt(how) == pc' = how /\ cr_pc' = how /\ dl_pc' = how

\* display.c:822-849
CrCreate ==
    /\ Alive /\ cr_pc = "create"
    /\ cr_pc' = "lock"
    /\ dl_pc' = "lock"
    /\ UNCHANGED <<du_vars, pm_vars, dd, ready_mutex, the_ctx, event, sent, n_events,
                   ev_accessed>>

\* display.c:851
CrLock ==
    /\ Alive /\ cr_pc = "lock"
    /\ ready_mutex = "free"
    /\ ready_mutex' = "creator"
    /\ cr_pc' = "wait"
    /\ UNCHANGED <<du_vars, pm_vars, dd, dl_pc, the_ctx, event, sent, n_events, ev_accessed>>

\* display.c:852, entering pthread_cond_wait
CrWait ==
    /\ Alive /\ cr_pc = "wait"
    /\ ready_mutex' = "free"
    /\ cr_pc' = "waiting"
    /\ UNCHANGED <<du_vars, pm_vars, dd, dl_pc, the_ctx, event, sent, n_events, ev_accessed>>

\* display.c:852, a wake-up without a signal
CrSpurious ==
    /\ Alive /\ cr_pc = "waiting"
    /\ cr_pc' = "woken"
    /\ UNCHANGED <<du_vars, pm_vars, dd, dl_pc, ready_mutex, the_ctx, event, sent, n_events,
                   ev_accessed>>

\* display.c:852, leaving pthread_cond_wait
CrWake ==
    /\ Alive /\ cr_pc = "woken"
    /\ ready_mutex = "free"
    /\ ready_mutex' = "creator"
    /\ cr_pc' = "unlock"
    /\ UNCHANGED <<du_vars, pm_vars, dd, dl_pc, the_ctx, event, sent, n_events, ev_accessed>>

\* display.c:853
CrUnlock ==
    /\ Alive /\ cr_pc = "unlock"
    /\ ready_mutex' = "free"
    /\ cr_pc' = "set_ctx"
    /\ UNCHANGED <<du_vars, pm_vars, dd, dl_pc, the_ctx, event, sent, n_events, ev_accessed>>

\* display.c:854-858
CrSetCtx ==
    /\ Alive /\ cr_pc = "set_ctx"
    /\ the_ctx' = 1
    /\ cr_pc' = "returned"
    /\ UNCHANGED <<du_vars, pm_vars, dd, dl_pc, ready_mutex, event, sent, n_events,
                   ev_accessed>>

\* display.c:881
DlLock ==
    /\ Alive /\ dl_pc = "lock"
    /\ ready_mutex = "free"
    /\ ready_mutex' = "display"
    /\ dl_pc' = "init"
    /\ UNCHANGED <<du_vars, pm_vars, dd, cr_pc, the_ctx, event, sent, n_events, ev_accessed>>

\* display.c:879-918: SDL_Init or SDL_SetVideoMode may fail (abort), and
\* SDL_LockSurface may fail (the thread returns, holding ready_mutex)
DlInit ==
    /\ Alive /\ dl_pc = "init"
    /\ \E how \in {"ok", "abort", "lock_failed"}, s \in 1..MaxScale, ml \in BOOLEAN :
          /\ how = "lock_failed" => ml
          /\ how # "ok" => s = 1
          /\ how = "abort" => ~ml
          /\ CASE how = "ok" ->
                    /\ scale' = s
                    /\ must_lock' = ml
                    /\ pixels' = InitialPixels
                    /\ surface_pixels' = InitialSurface(s)
                    /\ dl_pc' = "signal"
                    /\ UNCHANGED <<pc, cr_pc>>
               [] how = "abort" ->
                    /\ Halt("aborted")
                    /\ UNCHANGED <<scale, must_lock, pixels, surface_pixels>>
               [] how = "lock_failed" ->
                    /\ must_lock' = ml
                    /\ dl_pc' = "ended"
                    /\ UNCHANGED <<pc, cr_pc, scale, pixels, surface_pixels>>
    /\ UNCHANGED <<prev_items, prev_items_len, items, damaged, last_orig, du_ypos,
                   last_repaint, prev_ptr, items_ptr, trace, message, prev_message,
                   keyboard_pid, locked, n_msgs, dd, ready_mutex, the_ctx, event, sent,
                   n_events, ev_accessed>>

\* display.c:920
DlSignal ==
    /\ Alive /\ dl_pc = "signal"
    /\ cr_pc' = IF cr_pc = "waiting" THEN "woken" ELSE cr_pc
    /\ dl_pc' = "unlock"
    /\ UNCHANGED <<du_vars, pm_vars, dd, ready_mutex, the_ctx, event, sent, n_events,
                   ev_accessed>>

\* display.c:921
DlUnlock ==
    /\ Alive /\ dl_pc = "unlock"
    /\ ready_mutex' = "free"
    /\ dl_pc' = "wait_event"
    /\ UNCHANGED <<du_vars, pm_vars, dd, cr_pc, the_ctx, event, sent, n_events, ev_accessed>>

(***************************************************************************)
(* The event loop, display.c:925-989, with send_keyboard_event             *)
(* (display.c:664-746) and send_mouse_event (display.c:748-818).           *)
(***************************************************************************)
SdlEvent(type, key, unicode) == [type |-> type, key |-> key, unicode |-> unicode]

SdlEvents ==
    { SdlEvent("SDL_QUIT", 0, 0),
      SdlEvent("SDL_KEYDOWN", 97, 97),
      SdlEvent("SDL_KEYUP", 200, 0),
      SdlEvent("SDL_MOUSEMOTION", 0, 0),
      SdlEvent("SDL_ACTIVEEVENT", 0, 0) }

SpecialKeys == {273, 274, 275, 276, 301, 303, 304, 306, 308, 313}

\* display.c:681-723
supress_key(e) == e.unicode = 0 /\ e.key \notin SpecialKeys /\ ~(e.key <= 127)

is_keyboard(e) == e.type \in {"SDL_KEYDOWN", "SDL_KEYUP"}

is_mouse(e) == e.type \in {"SDL_MOUSEMOTION", "SDL_MOUSEBUTTONDOWN", "SDL_MOUSEBUTTONUP"}

\* display.c:925-983: SDL_WaitEvent returns an event; the switch exits, calls
\* send_keyboard_event or send_mouse_event with the_ctx, or ignores it
EvWait ==
    /\ Alive /\ dl_pc = "wait_event"
    /\ n_events < MaxEvents
    /\ n_events' = n_events + 1
    /\ \E e \in SdlEvents :
          CASE e.type = "SDL_QUIT" ->
                  /\ Halt("exited")
                  /\ UNCHANGED <<event, ev_accessed>>
            [] is_keyboard(e) \/ is_mouse(e) ->
                  /\ event' = [type |-> e.type, key |-> e.key, unicode |-> e.unicode,
                               ctx |-> the_ctx]
                  /\ ev_accessed' = ev_accessed \cup {"the_ctx"}
                  /\ dl_pc' = "send_event"
                  /\ UNCHANGED <<pc, cr_pc>>
            [] OTHER -> UNCHANGED <<pc, cr_pc, dl_pc, event, ev_accessed>>
    /\ UNCHANGED <<prev_items, prev_items_len, items, damaged, last_orig, pixels, du_ypos,
                   last_repaint, prev_ptr, items_ptr, trace, pm_vars, dd, ready_mutex,
                   the_ctx, sent>>

\* display.c:666-727 and 750-777: ctx->global is read through the ctx
\* passed (with a null ctx the read either crashes or, where the compiler
\* has moved it into the branch that uses it, is not made); then
\* keyboard_pid is tested and the key may be suppressed
EvCheck ==
    /\ Alive /\ dl_pc = "send_event"
    /\ \E crash \in BOOLEAN :
          /\ crash => event.ctx = 0
          /\ (event.ctx = 0 /\ keyboard_pid # 0) => crash
          /\ IF crash
             THEN Halt("crashed") /\ UNCHANGED ev_accessed
             ELSE /\ ev_accessed' = ev_accessed \cup {"keyboard_pid"}
                  /\ dl_pc' = IF keyboard_pid = 0 \/ (is_keyboard(event) /\ supress_key(event))
                              THEN "wait_event" ELSE "send"
                  /\ UNCHANGED <<pc, cr_pc>>
    /\ UNCHANGED <<prev_items, prev_items_len, items, damaged, last_orig, pixels, du_ypos,
                   last_repaint, prev_ptr, items_ptr, trace, pm_vars, dd, ready_mutex,
                   the_ctx, event, sent, n_events>>

\* a send_keyboard_event that also paints the first pixel of the framebuffer
EvSend_paints ==
    /\ Alive /\ dl_pc = "send"
    /\ sent' = Append(sent, [to |-> keyboard_pid,
                             what |-> IF is_keyboard(event) THEN "keyboard" ELSE "mouse"])
    /\ ev_accessed' = ev_accessed \cup {"keyboard_pid", "ts0"}
    /\ dl_pc' = "wait_event"
    /\ pixels' = [pixels EXCEPT ![0][0] = NoColor]
    /\ UNCHANGED <<pc, prev_items, prev_items_len, items, damaged, last_orig, du_ypos,
                   last_repaint, prev_ptr, items_ptr, trace, pm_vars, dd, cr_pc,
                   ready_mutex, the_ctx, event, n_events>>

\* display.c:729-744 and 801-816: build the event tuple and send it to
\* keyboard_pid as it is now
EvSend ==
    /\ Alive /\ dl_pc = "send"
    /\ sent' = Append(sent, [to |-> keyboard_pid,
                             what |-> IF is_keyboard(event) THEN "keyboard" ELSE "mouse"])
    /\ ev_accessed' = ev_accessed \cup {"keyboard_pid", "ts0"}
    /\ dl_pc' = "wait_event"
    /\ UNCHANGED <<du_vars, pm_vars, dd, cr_pc, ready_mutex, the_ctx, event, n_events>>

\* the process before display_create_port is called: nothing is allocated
ThreadsInit ==
    /\ pc = "idle"
    /\ prev_items = <<>>
    /\ prev_items_len = 0
    /\ prev_ptr = 0
    /\ prev_message = 0
    /\ items = <<>>
    /\ items_ptr = 0
    /\ damaged = InvalidRectangle
    /\ last_orig = <<>>
    /\ pixels = <<>>
    /\ du_ypos = 0
    /\ last_repaint = NoRepaint
    /\ message = NoMessage
    /\ keyboard_pid = 0
    /\ scale = 1
    /\ surface_pixels = <<>>
    /\ must_lock = FALSE
    /\ locked = 0
    /\ n_msgs = 0
    /\ trace = <<>>
    /\ dd = NoDd
    /\ cr_pc = "create"
    /\ dl_pc = "not_started"
    /\ ready_mutex = "free"
    /\ the_ctx = 0
    /\ event = NoEvent
    /\ sent = <<>>
    /\ n_events = 0
    /\ ev_accessed = {}

ThreadRequests ==
    { Request("update", 2, 1, <<init_item_rect(0, 1, 2, 1, <<0, 1, 0>>)>>),
      Request("subscribe_input", 2, 2, <<>>),
      Request("subscribe_input", 3, 1, <<>>) }

\* the port receives messages once display_create_port has returned
ThTake == cr_pc = "returned" /\ PmTakeFrom(ThreadRequests, MaxThreadMsgs)

CreatorNext == CrCreate \/ CrLock \/ CrWait \/ CrSpurious \/ CrWake \/ CrUnlock \/ CrSetCtx

DisplayNext == DlLock \/ DlInit \/ DlSignal \/ DlUnlock \/ EvWait \/ EvCheck \/ EvSend

HandlerNext ==
    \/ ThTake \/ PmLock \/ PmDispatch
    \/ DuAlloc \/ DuDiff \/ DuDestroy \/ DuAdopt \/ DuClip \/ DuRow \/ DuRowsDone
    \/ PmCopy \/ PmFlip \/ PmReply \/ PmInvalid \/ PmFree

ThreadsNext == CreatorNext \/ DisplayNext \/ HandlerNext

SpecThreads == ThreadsInit /\ [][ThreadsNext]_vars

\* Fair scheduling: a thread that can take a step of the handshake
\* eventually takes it.  A wake-up without a signal, the arrival of an SDL
\* event and the arrival of a message are not owed to anyone.
CreatorHandshake == CrCreate \/ CrLock \/ CrWait \/ CrWake \/ CrUnlock \/ CrSetCtx

DisplayHandshake == DlLock \/ DlInit \/ DlSignal \/ DlUnlock

SpecThreadsFair ==
    SpecThreads /\ WF_vars(CreatorHandshake) /\ WF_vars(DisplayHandshake)

(***************************************************************************)
(* Properties of the diff (SpecDiff).                                      *)
(***************************************************************************)
Equivalent(P, C) ==
    /\ Len(P) = Len(C)
    /\ \A i \in 1..Len(P) : cmp_display_item(C[i], P[i])

HasEquivalentIn(a, list) == \E k \in 1..Len(list) : cmp_display_item(a, list[k])

Inside(r, d) ==
    /\ d.valid
    /\ r.x >= d.x /\ r.y >= d.y
    /\ r.x + r.width <= d.x + d.width
    /\ r.y + r.height <= d.y + d.height

SetMin(S) == CHOOSE m \in S : \A n \in S : m <= n

SetMax(S) == CHOOSE m \in S : \A n \in S : m >= n

BoundingBox(list) ==
    LET x == SetMin({list[k].x : k \in 1..Len(list)})
        y == SetMin({list[k].y : k \in 1..Len(list)})
    IN  Rectangle(x, y,
                  SetMax({list[k].x + list[k].width : k \in 1..Len(list)}) - x,
                  SetMax({list[k].y + list[k].height : k \in 1..Len(list)}) - y,
                  TRUE)

Diffed == pc \in {"du_destroy", "du_adopt", "du_return", "du_repaint"}

\* C1: when the new list has the length of the retained list and each of its
\* elements is equivalent (cmp_display_item) to the retained element at the
\* same index, the empty lists included, dumb_diff leaves the damage
\* rectangle invalid and do_update does not go on to the repaint.
C1_EquivalentListsNoDamage ==
    (Diffed /\ Equivalent(last_orig, items))
        => (~damaged.valid /\ pc # "du_repaint")

C1_Witness ==
    /\ pc = "du_return"
    /\ Len(items) >= 2
    /\ items[1] # items[2]
    /\ Equivalent(last_orig, items)
    /\ ~damaged.valid

\* C2: after the diff, every primitive of the new list without an equivalent
\* in the retained list, and every primitive of the retained list without an
\* equivalent in the new list, has its bounding box inside the valid damage
\* rectangle.
C2_DamageSound ==
    pc = "du_adopt" =>
        /\ \A k \in 1..Len(items) :
              ~HasEquivalentIn(items[k], last_orig) => Inside(irect(items[k]), damaged)
        /\ \A k \in 1..Len(last_orig) :
              ~HasEquivalentIn(last_orig[k], items) => Inside(irect(last_orig[k]), damaged)

\* C3: with an empty retained list and a non-empty new list, the damage
\* rectangle is the smallest rectangle covering every bounding box of the new
\* list, in whatever order the primitives come.
C3_EmptyPreviousExactUnion ==
    (pc = "du_adopt" /\ Len(last_orig) = 0 /\ Len(items) > 0)
        => damaged = BoundingBox(items)

(***************************************************************************)
(* Properties of the compositor (SpecDraw).                                *)
(***************************************************************************)
Repainted == pc = "du_return" /\ last_repaint # NoRepaint

InsideFramebuffer(item) ==
    /\ item.x >= 0 /\ item.y >= 0
    /\ item.x + item.width <= ScreenW
    /\ item.y + item.height <= ScreenH

SourcePixel(item, x, y) ==
    ImageBuf(item.pix)[(y - item.y) * item.width + (x - item.x) + 1]

GlyphBit(item, x, y) ==
    bit_set(fontdata(item.text[((x - item.x) \div CHAR_WIDTH) + 1], y - item.y),
            (x - item.x) % CHAR_WIDTH)

\* what the claim calls opaque, for Rect, Image and Text
OpaqueAt(item, x, y) ==
    CASE item.primitive = "Rect" -> TRUE
      [] item.primitive = "Image" ->
             SourcePixel(item, x, y)[1] # 0 \/ item.brcolor # NoColor
      [] item.primitive = "Text" -> GlyphBit(item, x, y) \/ item.brcolor # NoColor

ColourAt(item, x, y) ==
    CASE item.primitive = "Rect" -> uint32_color_to_surface(item.brcolor)
      [] item.primitive = "Image" ->
             IF SourcePixel(item, x, y)[1] # 0
             THEN uint32_color_to_surface(SourcePixel(item, x, y))
             ELSE uint32_color_to_surface(item.brcolor)
      [] item.primitive = "Text" ->
             IF GlyphBit(item, x, y) THEN uint32_color_to_surface(item.fgcolor)
             ELSE uint32_color_to_surface(item.brcolor)

OpaqueCovering(list, x, y) ==
    {k \in 1..Len(list) : covers(list[k], x, y) /\ OpaqueAt(list[k], x, y)}

PlainScene(list) ==
    \A k \in 1..Len(list) :
        /\ list[k].primitive \in {"Rect", "Image", "Text"}
        /\ InsideFramebuffer(list[k])

\* C4: after a repaint with a scene of Rect, Image and Text primitives that
\* all lie inside the framebuffer, every pixel at which some covering
\* primitive is opaque holds the mapped colour of the lowest-index such
\* primitive; so a transparent pixel of a primitive without background shows
\* the next covering primitive in list order.
C4_TopmostOpaqueShown ==
    (Repainted /\ PlainScene(items)) =>
        \A y \in 0..(ScreenH - 1), x \in 0..(ScreenW - 1) :
            OpaqueCovering(items, x, y) # {} =>
                pixels[y][x] = ColourAt(items[SetMin(OpaqueCovering(items, x, y))], x, y)

C4_Witness ==
    /\ Repainted /\ PlainScene(items)
    /\ \E k \in 1..Len(items) : items[k].primitive = "Text"
    /\ \E y \in 0..(ScreenH - 1), x \in 0..(ScreenW - 1) :
          /\ OpaqueCovering(items, x, y) # {}
          /\ \E k \in 1..Len(items) :
                /\ k < SetMin(OpaqueCovering(items, x, y))
                /\ covers(items[k], x, y)
                /\ items[k].primitive = "Image"
          /\ pixels[y][x] = ColourAt(items[SetMin(OpaqueCovering(items, x, y))], x, y)

\* C5: for a scene of non-negative geometry, every framebuffer write made
\* while row y is repainted lands on row y, at a column of the repainted
\* rectangle, and inside the pixel array.
C5_WritesStayInRow ==
    \A w \in last_repaint.writes :
        /\ w[2] < ScreenW * ScreenH
        /\ w[2] \div ScreenW = w[1]
        /\ w[2] % ScreenW >= damaged.x
        /\ w[2] % ScreenW < damaged.x + damaged.width

\* C6: the framebuffer the compositor produces with the spans of
\* find_max_line_len equals, pixel for pixel, the one a compositor that gives
\* every row renderer call the span 1 produces.
C6_SpanBatchingNeutral ==
    Repainted => pixels = last_repaint.ref

\* C7: every source pixel draw_scaled_cropped_img_x reads for a
\* ScaledCroppedImage with positive scale factors lies inside the backing
\* image: its column is below img_width and its row below img_height.
C7_SourceReadsInsideImage ==
    \A src \in last_repaint.reads :
        src.col < src.img_width /\ src.row < src.img_height

(***************************************************************************)
(* Properties of the message handler (Spec), stated over the history.      *)
(***************************************************************************)
Events(e) == {p \in DOMAIN trace : trace[p].ev = e}

EventsOf(e, r) == {p \in DOMAIN trace : trace[p].ev = e /\ trace[p].ref = r}

FreesOf(obj) == {p \in DOMAIN trace : trace[p].ev = "free" /\ trace[p].obj = obj}

\* the array has been adopted and a later update has adopted its own list
Superseded(id) ==
    \E a \in Events("adopt"), b \in Events("adopt") : trace[a].obj.id = id /\ a < b

\* the free at position f is made by an update that has finished its diff
\* and that is not the update the array was allocated for
AfterDiffOfNext(f, id) ==
    /\ trace[f].ref # id
    /\ \E d \in EventsOf("diff", trace[f].ref) : d < f

\* C8: over any sequence of update requests, a superseded list has its item
\* array and each string of a Text primitive freed exactly once; a list is
\* freed only by a later update, after that update's dumb_diff has returned,
\* and only when that update is about to adopt its own list; nothing else of
\* a list is freed, and no pixel buffer of an Image or ScaledCroppedImage is
\* ever freed.
C8_SupersededDestroyedOnce ==
    /\ \A f \in Events("free") : trace[f].obj.kind # "pix"
    /\ \A p \in Events("alloc") :
          LET id == trace[p].obj.id
              list == trace[p].list
              array == FreesOf(Obj("items", id, 0))
              string(i) == FreesOf(Obj("text", id, i))
          IN  /\ Cardinality(array) <= 1
              /\ \A f \in array : AfterDiffOfNext(f, id)
              /\ array # {} => (Superseded(id) \/ pc = "du_adopt")
              /\ Superseded(id) => Cardinality(array) = 1
              /\ \A i \in 0..(Len(list) - 1) :
                    /\ \A f \in string(i) : AfterDiffOfNext(f, id)
                    /\ IF list[i + 1].primitive = "Text"
                       THEN /\ Cardinality(string(i)) <= 1
                            /\ Cardinality(string(i)) = Cardinality(array)
                       ELSE string(i) = {}

C8_Witness ==
    /\ pc = "idle"
    /\ Cardinality(Events("adopt")) = 3
    /\ \E p \in Events("alloc") :
          /\ Superseded(trace[p].obj.id)
          /\ FreesOf(Obj("items", trace[p].obj.id, 0)) # {}
          /\ \E i \in 1..Len(trace[p].list) :
                /\ trace[p].list[i].primitive = "Text"
                /\ FreesOf(Obj("text", trace[p].obj.id, i - 1)) # {}
          /\ \E i \in 1..Len(trace[p].list) : trace[p].list[i].primitive = "Image"
    /\ \E p \in Events("alloc") :
          /\ Superseded(trace[p].obj.id)
          /\ \E i \in 1..Len(trace[p].list) :
                trace[p].list[i].primitive = "ScaledCroppedImage"

\* C9: when the allocation of the new list fails, the update neither crashes
\* nor goes on: it frees nothing of the retained list, adopts nothing, and
\* when the handler returns the caller has been sent a reply that is not ok.
C9_AllocationFailureAbandons ==
    \A p \in Events("alloc_failed") :
        LET r == trace[p].ref
        IN  /\ \A q \in DOMAIN trace :
                  (q > p /\ trace[q].ref = r) =>
                      /\ trace[q].ev \notin {"crash", "adopt", "repaint"}
                      /\ trace[q].ev = "free" => trace[q].obj.kind \notin {"items", "text"}
                      /\ trace[q].ev = "reply" => trace[q].obj.kind # "ok"
            /\ EventsOf("return", r) # {} => EventsOf("reply", r) # {}

\* C10: every update request the handler has taken and finished with has
\* exactly one {Ref, ok} reply, and the reply comes after the adoption, the
\* repaint (if there is one), the copy to the surface and the flip made for
\* that request.
C10_UpdateAckedOnceAfterFlip ==
    \A p \in Events("take") :
        LET r == trace[p].ref
            replies == EventsOf("reply", r)
            finished == \E q \in DOMAIN trace :
                           trace[q].ref = r /\ trace[q].ev \in {"return", "crash", "abort"}
        IN  trace[p].obj.kind = "update" =>
                /\ Cardinality(replies) <= 1
                /\ finished => Cardinality(replies) = 1
                /\ \A q \in replies :
                      /\ trace[q].obj.kind = "ok"
                      /\ EventsOf("copy", r) # {} /\ EventsOf("flip", r) # {}
                      /\ \A e \in DOMAIN trace :
                            (trace[e].ref = r
                               /\ trace[e].ev \in {"diff", "adopt", "repaint", "copy", "flip"})
                                => e < q

(***************************************************************************)
(* Properties of the threads (SpecThreads).                                *)
(***************************************************************************)
InEventLoop == dl_pc \in {"wait_event", "send_event", "send"}

EventLoopStep == InEventLoop /\ (dl_pc' # dl_pc \/ n_events' # n_events)

InDoUpdate == pc \in {"du_alloc", "du_diff", "du_destroy", "du_adopt", "du_repaint", "du_rows"}

NoDamageFound == pc \in {"du_destroy", "du_adopt", "du_repaint", "du_rows"} /\ ~damaged.valid

\* C12: when dumb_diff leaves the damage rectangle invalid, no step of
\* do_update changes a framebuffer pixel (none before the diff either), the
\* update returns straight after adopting, and on return the retained list is
\* the new list.
C12_NoDamageNoWrite ==
    /\ [][((pc \in {"du_alloc", "du_diff"} \/ NoDamageFound) => pixels' = pixels)
             /\ (NoDamageFound => pc' \in {"du_destroy", "du_adopt", "du_return"})]_vars
    /\ []((pc = "du_return" /\ ~damaged.valid)
            => (prev_items = items /\ prev_items_len = Len(items)
                  /\ prev_ptr = items_ptr /\ last_repaint = NoRepaint))

C12_Witness ==
    /\ pc = "du_return" /\ ~damaged.valid
    /\ prev_items = items /\ Len(items) > 0
    /\ pixels # InitialPixels
    /\ n_msgs > 1

(***************************************************************************)
(* Properties of dumb_diff's loop (SpecDiffLoop).                          *)
(***************************************************************************)
\* the loop's result is one of the results of dumb_diff
DiffLoopAgrees ==
    pc = "du_destroy"
        => \E r \in dumb_diff(prev_items, prev_items_len, items, Len(items), InvalidRectangle) :
              r.damaged = damaged /\ r.j = dd.j /\ r.oob_read = dd.oob_read

\* C13: after an iteration in which current[i] differed from previous[j]
\* and was found at the first k > j, every previous primitive with index in
\* j..k-1 lies inside the damage rectangle, and j is k+1.
C13_SkippedPrimitivesDamaged ==
    (pc = "dd_loop" /\ dd.last = "skip")
        => /\ dd.j = dd.last_k + 1
           /\ \A l \in dd.last_j..(dd.last_k - 1) :
                 Inside(irect(prev_items[l + 1]), dd.damaged)

C13_ResumesAfterMatch ==
    (pc = "dd_loop" /\ dd.last = "skip")
        => /\ dd.j = dd.last_k + 1
           /\ dd.last_k > dd.last_j
           /\ cmp_display_item(items[dd.i], prev_items[dd.last_k + 1])
           /\ \A m \in (dd.last_j + 1)..(dd.last_k - 1) :
                 ~cmp_display_item(items[dd.i], prev_items[m + 1])

\* C14: with a non-empty previous list, dumb_diff reads previous[j] only
\* with j below the previous list's length.
C14_NoReadPastPrevious ==
    prev_items_len > 0 => ~dd.oob_read

(***************************************************************************)
(* Properties of a sequence of updates (SpecScenes).                       *)
(***************************************************************************)
\* C15: when an update with a scene of Rect, Image and Text primitives inside
\* the framebuffer returns, whatever the updates before it, every pixel at
\* which some primitive of the scene is opaque holds the mapped colour of
\* the lowest-index such primitive.
C15_SceneShownAfterAnyHistory ==
    (pc = "du_return" /\ PlainScene(items)) =>
        \A y \in 0..(ScreenH - 1), x \in 0..(ScreenW - 1) :
            OpaqueCovering(items, x, y) # {} =>
                pixels[y][x] = ColourAt(items[SetMin(OpaqueCovering(items, x, y))], x, y)

\* the same, for the first update only
FirstSceneShown == n_msgs = 1 => C15_SceneShownAfterAnyHistory

(***************************************************************************)
(* Properties of cmp_display_item (SpecCmp).                               *)
(***************************************************************************)
SameBase(a, b) ==
    /\ a.primitive = b.primitive
    /\ a.x = b.x /\ a.y = b.y /\ a.width = b.width /\ a.height = b.height
    /\ a.brcolor = b.brcolor

\* equal kind-specific payload, as the claim lists it
SamePayload(a, b) ==
    CASE a.primitive = "Image" -> a.pix = b.pix
      [] a.primitive = "ScaledCroppedImage" ->
             /\ a.pix = b.pix
             /\ a.x_scale = b.x_scale /\ a.y_scale = b.y_scale
             /\ a.source_x = b.source_x /\ a.source_y = b.source_y
      [] a.primitive = "Rect" -> TRUE
      [] a.primitive = "Text" -> a.fgcolor = b.fgcolor /\ a.text = b.text

Compared == pc = "dd_loop" /\ dd.i = 1 /\ dd.last_j = 0 /\ dd.last # "all_new"

\* C16: the comparison of new[0] with orig[0] reports them equivalent
\* exactly when kind, geometry and background colour are the same and the
\* kind's payload is equal, the pixel buffer being the payload of Image and
\* part of the payload of ScaledCroppedImage.
C16_EquivalenceIsPayloadEquality ==
    Compared => (dd.last_eq <=> (SameBase(items[1], prev_items[1])
                                  /\ SamePayload(items[1], prev_items[1])))

\* the same, for Rect, Image and Text only
C16_ExceptScaled ==
    (Compared /\ items[1].primitive # "ScaledCroppedImage")
        => (dd.last_eq <=> (SameBase(items[1], prev_items[1])
                             /\ SamePayload(items[1], prev_items[1])))

(***************************************************************************)
(* Properties of the scaled image's sampling (SpecDraw).                   *)
(***************************************************************************)
\* a read inside the pixel buffer that found an opaque source pixel, whose
\* colour draw_scaled_cropped_img_x then wrote at output offset (dx, dy)
WroteSourceColour(src) ==
    /\ ~outside_buffer(src)
    /\ ImageBuf(src.pix)[src.row * src.img_width + src.col + 1][1] # 0

\* C17: every output pixel that draw_scaled_cropped_img_x writes with a
\* source pixel's colour, at column offset dx and row offset dy, takes it
\* from the source pixel (source_x + dx div x_scale, source_y + dy div
\* y_scale).
C17_ScaledSamplingByDivision ==
    \A src \in last_repaint.reads :
        WroteSourceColour(src) =>
            /\ src.col = src.source_x + src.dx \div src.x_scale
            /\ src.row = src.source_y + src.dy \div src.y_scale

\* the rows are sampled so, and so is the first pixel of every run
C17_RowsSampledByDivision ==
    \A src \in last_repaint.reads :
        src.row = src.source_y + src.dy \div src.y_scale

(***************************************************************************)
(* Properties of the start-up handshake (SpecThreadsFair, SpecThreads).    *)
(***************************************************************************)
\* display_create_port has returned, or the process has ended
CreatePortOver == cr_pc \in {"returned", "exited", "crashed", "aborted"}

\* C18: once display_loop has initialised SDL and the screen successfully
\* (it is about to signal ready), display_create_port eventually returns,
\* unless the process ends first.
C18_CreatePortReturns == (dl_pc = "signal") ~> CreatePortOver

\* the same when the creating thread is already waiting at the signal
C18_ReturnsWhenWaitingFirst ==
    (dl_pc = "signal" /\ cr_pc = "waiting") ~> CreatePortOver

\* C19: send_keyboard_event and send_mouse_event are only ever called with
\* the_ctx set: whenever the display thread is in one of them, the ctx it
\* passed is not null.
C19_EventsSentWithContext ==
    dl_pc \in {"send_event", "send"} => event.ctx # 0

\* once display_create_port has returned, the ctx passed is set
C19_SetAfterReturn ==
    [][(cr_pc = "returned" /\ dl_pc = "wait_event" /\ dl_pc' = "send_event")
          => event'.ctx # 0]_vars

(***************************************************************************)
(* Properties of the clip (SpecClip).                                      *)
(***************************************************************************)
Clipped == pc = "du_rows" /\ du_ypos = 0 /\ last_repaint.damage.valid

PointsOf(r) ==
    {<<x, y>> \in (-1..(ScreenW + 8)) \X (-1..(ScreenH + 8)) :
        /\ r.x <= x /\ x < r.x + r.width
        /\ r.y <= y /\ y < r.y + r.height}

\* C20: after the clip the damage rectangle has non-negative width and
\* height, lies inside the framebuffer rectangle, and covers exactly the
\* pixels of the damage rectangle that are in the framebuffer.
C20_ClipIsIntersection ==
    Clipped =>
        LET c == last_repaint.clipped
        IN  /\ c.width >= 0 /\ c.height >= 0
            /\ c.x >= 0 /\ c.x + c.width <= ScreenW
            /\ c.y >= 0 /\ c.y + c.height <= ScreenH
            /\ PointsOf(c) = PointsOf(last_repaint.damage) \cap PointsOf(screen_rect)

\* the same for a damage rectangle that starts inside the framebuffer
C20_ClipOfOverlapping ==
    (Clipped /\ last_repaint.damage.x < ScreenW /\ last_repaint.damage.y < ScreenH) =>
        LET c == last_repaint.clipped
        IN  /\ c.width >= 0 /\ c.height >= 0
            /\ c.x >= 0 /\ c.x + c.width <= ScreenW
            /\ c.y >= 0 /\ c.y + c.height <= ScreenH
            /\ PointsOf(c) = PointsOf(last_repaint.damage) \cap PointsOf(screen_rect)

(***************************************************************************)
(* Properties of the runs of draw_x (SpecDraw).                            *)
(***************************************************************************)
\* the pixel indexes a draw_x call wrote: the run starts at (c.x, c.y)
WrittenBy(c) == {ScreenW * c.y + c.x + k : k \in 0..(c.written - 1)}

\* pixel index p is inside the bounding box of a primitive of lower index
\* than the one the call drew with
InHigherPriorityBox(c, p) ==
    \E m \in 1..c.i : covers(items[m], p % ScreenW, p \div ScreenW)

AllInsideFramebuffer(list) == \A k \in 1..Len(list) : InsideFramebuffer(list[k])

\* C21: a draw_x call that draws with primitive i writes no pixel inside
\* the bounding box of a primitive of lower index, except on a fall-through
\* attempt, which writes the one pixel at xpos with the span 1.
C21_RunSparesHigherPriority ==
    \A c \in last_repaint.calls :
        c.i >= 0 =>
            IF c.below
            THEN c.span = 1 /\ c.written <= 1
            ELSE \A p \in WrittenBy(c) : ~InHigherPriorityBox(c, p)

\* the same for scenes whose primitives lie inside the framebuffer
C21_InsideFramebuffer ==
    AllInsideFramebuffer(items) => C21_RunSparesHigherPriority

C21_Witness ==
    /\ Repainted /\ AllInsideFramebuffer(items)
    /\ \E c \in last_repaint.calls :
          /\ c.i >= 1 /\ ~c.below /\ c.written >= 2
          /\ c.written = items[c.i + 1].x + items[c.i + 1].width - c.x
    /\ \E c \in last_repaint.calls :
          /\ c.i >= 1 /\ ~c.below /\ c.written >= 2
          /\ c.written < items[c.i + 1].x + items[c.i + 1].width - c.x
          /\ InHigherPriorityBox(c, ScreenW * c.y + c.x + c.written)
    /\ \E c \in last_repaint.calls : c.i >= 1 /\ c.below /\ c.written = 1

(***************************************************************************)
(* Properties of dumb_diff's handling of a new primitive (SpecDiffLoop).   *)
(***************************************************************************)
\* the smallest rectangle that covers the damage so far and the box
RectUnion(area, box) ==
    IF ~area.valid THEN box
    ELSE LET x == int_min(area.x, box.x)
             y == int_min(area.y, box.y)
         IN  Rectangle(x, y,
                       int_max(area.x + area.width, box.x + box.width) - x,
                       int_max(area.y + area.height, box.y + box.height) - y,
                       TRUE)

\* an iteration with j inside the previous list that found current[i]
\* nowhere from j on
NewPrimitiveStep ==
    /\ pc = "dd_loop" /\ dd.i < Len(items) /\ dd.j < prev_items_len
    /\ dd'.i = dd.i + 1 /\ dd'.last = "new"

\* C22: such an iteration makes the damage rectangle the union of the damage
\* so far with current[i]'s bounding box, advances i and leaves j as it was.
C22_NewPrimitiveDamaged ==
    [][NewPrimitiveStep =>
          /\ dd'.j = dd.j
          /\ dd'.damaged = RectUnion(dd.damaged, irect(items[dd.i + 1]))]_vars

\* i and j move as claimed, current[i] has no equivalent from j on, and the
\* first box that is damaged is damaged exactly
C22_IndexesAndFirstBox ==
    [][NewPrimitiveStep =>
          /\ dd'.j = dd.j
          /\ \A k \in dd.j..(prev_items_len - 1) :
                ~cmp_display_item(items[dd.i + 1], prev_items[k + 1])
          /\ ~dd.damaged.valid => dd'.damaged = irect(items[dd.i + 1])]_vars

(***************************************************************************)
(* Properties of the pixels nothing paints (SpecDraw).                     *)
(***************************************************************************)
\* the source pixel of a ScaledCroppedImage for output pixel (x, y)
ScaledCol(item, x) == item.source_x + (x - item.x) \div item.x_scale

ScaledRow(item, y) == item.source_y + (y - item.y) \div item.y_scale

\* the primitive has no background colour and is transparent at (x, y)
TransparentAt(item, x, y) ==
    /\ item.brcolor = NoColor
    /\ CASE item.primitive = "Image" -> SourcePixel(item, x, y)[1] = 0
         [] item.primitive = "Text" -> ~GlyphBit(item, x, y)
         [] item.primitive = "ScaledCroppedImage" ->
                /\ ScaledCol(item, x) < item.img_width
                /\ ScaledRow(item, y) < item.img_height
                /\ ImageBuf(item.pix)[ScaledRow(item, y) * item.img_width
                                         + ScaledCol(item, x) + 1][1] = 0
         [] OTHER -> FALSE

\* no primitive covers (x, y), or every covering primitive is transparent there
NothingToPaint(list, x, y) ==
    \A k \in 1..Len(list) : covers(list[k], x, y) => TransparentAt(list[k], x, y)

\* draw_x was called at (x, y), wrote nothing and returned 1
SteppedOver(x, y) ==
    \E c \in last_repaint.calls :
        c.x = x /\ c.y = y /\ c.written = 0 /\ c.drawn_pixels = 1

\* C23: after a repaint of a scene inside the framebuffer, every pixel that
\* no primitive covers, or at which every covering primitive is transparent
\* without background colour, holds the value it had before the repaint, and
\* draw_x was called there, wrote nothing and advanced by one column.
C23_UnpaintedPixelKept ==
    (Repainted /\ AllInsideFramebuffer(items)) =>
        \A y \in 0..(ScreenH - 1), x \in 0..(ScreenW - 1) :
            NothingToPaint(items, x, y) =>
                pixels[y][x] = last_repaint.before[y][x] /\ SteppedOver(x, y)

\* the same for scenes of Rect, Image and Text
C23_PlainScenes ==
    PlainScene(items) => C23_UnpaintedPixelKept

(***************************************************************************)
(* Termination of the repaint (SpecDrawFair).                              *)
(***************************************************************************)
\* every row renderer, called where draw_x may call it, returns a count
\* between 0 and the span it is given
RenderersBounded ==
    \A k \in 1..Len(items), ypos \in 0..(ScreenH - 1), xpos \in 0..(ScreenW - 1) :
        covers(items[k], xpos, ypos) =>
            \A span \in {1, find_max_line_len(items, k - 1, xpos, ypos)}, junk \in JunkPixels :
                Len(draw_item_x(xpos, ypos, span, items[k], junk).run) \in 0..span

\* every draw_x call returned at least 1, a drawing call as many as it wrote
\* and no more than its span, and the loop called draw_x again that many
\* columns to the right unless the row was finished
CallsAdvance ==
    \A c \in last_repaint.calls :
        /\ c.drawn_pixels >= 1
        /\ IF c.i >= 0 THEN c.written = c.drawn_pixels /\ c.written <= c.span
           ELSE c.written = 0 /\ c.drawn_pixels = 1
        /\ c.x + c.drawn_pixels < damaged.x + damaged.width =>
              \E n \in last_repaint.calls : n.y = c.y /\ n.x = c.x + c.drawn_pixels

\* C24: the row renderers return a count between 0 and their span, draw_x
\* returns at least 1 so that xpos strictly increases along a row, and a
\* repaint that has started completes: every row of the rectangle is done
\* and do_update returns.
C24_RepaintTerminates ==
    /\ [](pc = "du_repaint" => RenderersBounded)
    /\ [](pc \in {"du_rows", "du_return"} => CallsAdvance)
    /\ (pc = "du_repaint") ~> (pc = "du_return" /\ du_ypos = damaged.y + damaged.height)

C24_Witness ==
    /\ Repainted /\ du_ypos = ScreenH
    /\ \E c \in last_repaint.calls : c.i >= 0 /\ c.written >= 2 /\ c.written = c.span
    /\ \E c \in last_repaint.calls : c.i >= 0 /\ c.below /\ c.written = 1
    /\ \E c \in last_repaint.calls : c.i < 0 /\ c.below
    /\ \E c \in last_repaint.calls : c.i < 0 /\ ~c.below

(***************************************************************************)
(* C25: the disposal of port messages.  A list allocated for an update     *)
(* carries the reference of its message (DuAlloc), so the message a list   *)
(* borrows from is the message with the list's identifier.                 *)
(***************************************************************************)
MessageFrees(r) == FreesOf(destroy_message(r))

TakenMessages(update) ==
    {p \in Events("take") : (trace[p].obj.kind = "update") = update}

\* the list prev_items points to is retained until destroy_items has freed
\* its array
Retained(id) == id # 0 /\ id = prev_ptr /\ FreesOf(Obj("items", id, 0)) = {}

\* the retained list's message is alive, and between two messages
\* prev_message names it
RetainedMessageAlive ==
    /\ Retained(prev_ptr) => MessageFrees(prev_ptr) = {}
    /\ (pc = "idle" /\ prev_ptr # 0) => prev_message = prev_ptr

\* no message is disposed twice; an update message is disposed only by a
\* later update whose dumb_diff has returned; a non-update message is
\* disposed only by its own handler
DisposedOnceAndInTime ==
    /\ \A p \in Events("take") : Cardinality(MessageFrees(trace[p].ref)) <= 1
    /\ \A p \in TakenMessages(TRUE) :
          \A f \in MessageFrees(trace[p].ref) : AfterDiffOfNext(f, trace[p].ref)
    /\ \A p \in TakenMessages(FALSE) :
          \A f \in MessageFrees(trace[p].ref) : trace[f].ref = trace[p].ref

\* the handler of a non-update message has disposed of the message when it
\* returns
DisposedAtEndOfProcessing ==
    \A p \in TakenMessages(FALSE) :
        \A q \in EventsOf("return", trace[p].ref) :
            \E f \in MessageFrees(trace[p].ref) : f < q

\* C25: over any sequence of port messages, the message the retained list
\* borrows from has not been disposed while the list is retained, no message
\* is disposed more than once, an update message is disposed only when the
\* next update has been diffed, and a non-update message is disposed at the
\* end of its own processing.
C25_MessagesDisposedInTime ==
    /\ RetainedMessageAlive
    /\ DisposedOnceAndInTime
    /\ DisposedAtEndOfProcessing

\* what holds of C25: everything but the disposal of a non-update message
\* whose handler returned at the failed lock
C25_NoEarlyOrDoubleDisposal ==
    /\ RetainedMessageAlive
    /\ DisposedOnceAndInTime
    /\ \A p \in TakenMessages(FALSE) :
          \A q \in EventsOf("return", trace[p].ref) :
              \/ \E f \in MessageFrees(trace[p].ref) : f < q
              \/ must_lock /\ q = p + 1

C25_Witness ==
    /\ pc = "idle"
    /\ prev_ptr # 0
    /\ \E p \in TakenMessages(TRUE) : MessageFrees(trace[p].ref) # {}
    /\ \E p \in TakenMessages(FALSE) : MessageFrees(trace[p].ref) # {}

(***************************************************************************)
(* C26: the columns of a Text primitive.                                   *)
(***************************************************************************)
\* what the rule decides for column j of the primitive on row ypos: the
\* colour to write, or <<>> where the run stops
DecidedColumn(item, ypos, j) ==
    LET c == item.text[(j \div 8) + 1]
        scanline == fontdata(c, ypos - item.y)
        bit == (scanline \div (2 ^ (7 - (j % 8)))) % 2
    IN  IF bit = 1 THEN uint32_color_to_surface(item.fgcolor)
        ELSE IF item.brcolor # NoColor THEN uint32_color_to_surface(item.brcolor)
        ELSE <<>>

\* the run draw_text_x returns at (xpos, ypos) with the span max_line_len is
\* the decided colours of the columns from xpos - x up to the first column
\* that stops, or up to the end of the width and of the span
TextRunAsDecided(item, xpos, ypos, max_line_len) ==
    LET run == draw_text_x(xpos, ypos, max_line_len, item).run
        first == xpos - item.x
        limit == int_min(item.width, first + max_line_len)
        stops == {j \in first..(limit - 1) : DecidedColumn(item, ypos, j) = <<>>}
        end == IF stops = {} THEN int_max(first, limit) ELSE SetMin(stops)
    IN  /\ Len(run) = end - first
        /\ \A m \in 1..Len(run) : run[m] = DecidedColumn(item, ypos, first + m - 1)

TextCalls ==
    {c \in last_repaint.calls : c.i >= 0 /\ items[c.i + 1].primitive = "Text"}

\* C26: draw_text_x decides column j of a Text primitive from character
\* j div 8 and bit 7 - (j mod 8) of that character's scanline ypos - y: a set
\* bit writes the foreground colour, a clear bit the background colour when
\* there is one, and otherwise the run stops and the count drawn so far is
\* returned; the width is 8 times the string's length, so the character
\* index is inside the string.
\* The rule is checked of every call the repaint made and, before the
\* repaint (the list does not change during it), of every pixel a Text
\* primitive covers with every span.
C26_TextColumnsFromGlyphBits ==
    /\ \A n \in 1..Len(items) :
          LET item == items[n]
          IN  item.primitive = "Text" =>
                 /\ item.width = 8 * strlen(item.text)
                 /\ \A j \in 0..(item.width - 1) : j \div CHAR_WIDTH < strlen(item.text)
                 /\ pc = "du_diff" =>
                       \A xpos \in 0..(ScreenW - 1), ypos \in 0..(ScreenH - 1) :
                          covers(item, xpos, ypos) =>
                             \A max_line_len \in 1..ScreenW :
                                 TextRunAsDecided(item, xpos, ypos, max_line_len)
    /\ \A c \in TextCalls :
          /\ TextRunAsDecided(items[c.i + 1], c.x, c.y, c.span)
          /\ c.written = Len(draw_text_x(c.x, c.y, c.span, items[c.i + 1]).run)

C26_Witness ==
    /\ pc = "du_return"
    /\ \E c \in TextCalls :
          LET item == items[c.i + 1]
          IN  /\ item.brcolor = NoColor
              /\ c.written >= 2
              /\ c.written < int_min(item.width - (c.x - item.x), c.span)
    /\ \E c \in TextCalls :
          LET item == items[c.i + 1]
          IN  /\ item.brcolor = NoColor
              /\ c.x - item.x < 8
              /\ c.x - item.x + c.written > 8
    /\ \E c \in TextCalls :
          LET item == items[c.i + 1]
          IN  /\ item.brcolor # NoColor
              /\ \E m \in 0..(c.written - 1) :
                    DecidedColumn(item, c.y, c.x - item.x + m)
                        = uint32_color_to_surface(item.brcolor)
              /\ \E m \in 0..(c.written - 1) :
                    DecidedColumn(item, c.y, c.x - item.x + m)
                        = uint32_color_to_surface(item.fgcolor)

(***************************************************************************)
(* C27: the whole-screen repaint.                                          *)
(***************************************************************************)
\* draw_x was called on the pixel or a call to its left on the row returned
\* a count that passes over it
Visited(x, y) ==
    \E c \in last_repaint.calls : c.y = y /\ c.x <= x /\ x < c.x + c.drawn_pixels

\* C27: whenever dumb_diff reports a valid damage rectangle, do_update
\* repaints the whole framebuffer rectangle (0, 0, screen width, screen
\* height), whatever the diff and the clip computed: the loops run over that
\* rectangle, and when do_update returns every pixel of every row has been
\* visited.
C27_ValidDamageRepaintsWholeScreen ==
    /\ pc = "du_rows" =>
          /\ last_repaint.damage.valid
          /\ damaged = [screen_rect EXCEPT !.valid = last_repaint.clipped.valid]
    /\ (pc = "du_return" /\ damaged.valid) =>
          /\ last_repaint # NoRepaint
          /\ damaged = [screen_rect EXCEPT !.valid = TRUE]
          /\ du_ypos = ScreenH
          /\ \A y \in 0..(ScreenH - 1) :
                /\ \E c \in last_repaint.calls : c.y = y /\ c.x = 0
                /\ \A x \in 0..(ScreenW - 1) : Visited(x, y)

C27_Witness ==
    /\ Repainted
    /\ last_repaint.damage # last_repaint.clipped
    /\ last_repaint.clipped.width < ScreenW
    /\ last_repaint.clipped.y > 0
    /\ \A y \in 0..(ScreenH - 1), x \in 0..(ScreenW - 1) : Visited(x, y)

====
